---- MODULE Spec2Model ----
(***************************************************************************)
(* Model of the LiveEdit job execution pipeline                            *)
(* (src/LiveEditBackend/video_tasks.py and the job endpoints of app.py):   *)
(* the retrying AI invoker, the job record store and the three worker      *)
(* tasks analyze_video_task, edit_video_task and edit_multi_task.          *)
(* The submission, download and payment endpoints of app.py are modelled   *)
(* by the responses they give and the rows they write.                     *)
(*                                                                         *)
(* Texts (messages, error texts, stderr) are sequences of tokens, so that  *)
(* "the message contains the error text" is a contiguous-subsequence test. *)
(***************************************************************************)
EXTENDS Integers, Sequences, FiniteSets, TLC

VARIABLES
    ids,    \* job ids secrets.token_hex can still hand out
    jobs,   \* video_jobs table: job id -> record (status "absent" = no row)
    task,   \* arguments the task of a job was dispatched with
    wk,     \* worker position per job: pc, invoker state, paths, return value
    fs,     \* files on local disk: path -> how the file came to exist
    storeFaults, \* number of job-record writes the store can still fail
    call,   \* a stand-alone invocation of call_gemini_with_retry
    pure,   \* a stand-alone application of one of the pure functions
    http,   \* the response of the last request an endpoint of app.py answered
    pay     \* payment of one reference: provider, transaction row, user row,
            \* and the requests to verify_payment that are being handled

vars == <<ids, jobs, task, wk, fs, storeFaults, call, pure, http, pay>>

(***************************************************************************)
(* Bounds of the model                                                     *)
(***************************************************************************)
\* largest max_retries tried for a stand-alone invocation
MaxRetriesBound == 3
\* largest initial_wait tried for a stand-alone invocation
MaxInitialWait == 2
\* number of job-record writes the store may fail in one behaviour
MaxStoreFaults == 1
\* longest response text (in tokens) given to parse_model_response
MaxTextLen == 5
\* longest `order` list of a plan
MaxOrderLen == 3
\* longest `cuts` list of a plan
MaxCutsLen == 2
\* longest `audio_cues` list of a plan, and longest edit plan of a caller
MaxCuesLen == 2

(***************************************************************************)
(* Texts                                                                   *)
(***************************************************************************)
\* s contains t as a contiguous run of tokens (Python: t in s)
Contains(s, t) ==
    \E i \in 0..(Len(s) - Len(t)) : SubSeq(s, i + 1, i + Len(t)) = t

\* str.lower() on one token
Lower(tok) ==
    CASE tok = "UNAVAILABLE" -> "unavailable"
      [] tok = "Deadline"    -> "deadline"
      [] tok = "Exceeded"    -> "exceeded"
      [] tok = "Overloaded"  -> "overloaded"
      [] OTHER               -> tok

LowerText(s) == [i \in 1..Len(s) |-> Lower(s[i])]

\* error texts the AI client can raise with
ErrorTexts ==
    { <<"503", "UNAVAILABLE">>,
      <<"Deadline", "Exceeded">>,
      <<"model", "Overloaded">>,
      <<"invalid", "api", "key">>,
      <<"404", "not", "found">> }

\* the error texts drawn for the AI calls of the job pipeline
JobErrorTexts == { <<"503", "UNAVAILABLE">>, <<"invalid", "api", "key">> }

RetryableSignals == {"503", "429", "unavailable", "overloaded", "timeout", "deadline"}

\* is_retryable = any(x in error_str.lower() for x in [...])
IsRetryable(err) ==
    \E x \in RetryableSignals : Contains(LowerText(err), <<x>>)

\* 2 ** n
RECURSIVE Pow2(_)
Pow2(n) == IF n = 0 THEN 1 ELSE 2 * Pow2(n - 1)

(***************************************************************************)
(* Job record store                                                        *)
(***************************************************************************)
JobIds == {"j1", "j2"}
NoJobId == "none"
NoPath == <<>>
NoJson == [set |-> FALSE]

AbsentJob ==
    [status |-> "absent", progress |-> 0, message |-> <<>>,
     result_path |-> NoPath, result_json |-> NoJson, updated_at |-> 0]

\* INSERT INTO video_jobs (job_id, job_type, status, progress, message)
InsertedJob(msg) ==
    [status |-> "queued", progress |-> 0, message |-> msg,
     result_path |-> NoPath, result_json |-> NoJson, updated_at |-> 0]

\* update_job(job_id, **fields): UPDATE video_jobs SET ... WHERE job_id = ...;
\* a failure of the store is caught and printed, the row stays as it was.
\* stored = the store carried out the write.
update_job_on_failure(J, j, fields, stored) ==
    IF DOMAIN fields = {} \/ j \notin DOMAIN J \/ J[j].status = "absent"
    THEN J
    ELSE [J EXCEPT ![j] =
            [k \in DOMAIN @ |->
                IF k = "updated_at" THEN @[k] + 1
                ELSE IF k \in DOMAIN fields THEN fields[k] ELSE @[k]]]
update_job(J, j, fields, stored) ==
    IF DOMAIN fields = {} \/ ~stored \/ j \notin DOMAIN J \/ J[j].status = "absent"
    THEN J
    ELSE [J EXCEPT ![j] =
            [k \in DOMAIN @ |->
                IF k = "updated_at" THEN @[k] + 1
                ELSE IF k \in DOMAIN fields THEN fields[k] ELSE @[k]]]

\* outcomes of one write to the store: carried out, or failed
WriteOutcomes == IF storeFaults > 0 THEN {TRUE, FALSE} ELSE {TRUE}
Lost(stored) == IF stored THEN storeFaults ELSE storeFaults - 1

(***************************************************************************)
(* call_gemini_with_retry                                                  *)
(***************************************************************************)
NoError == <<>>
OkOutcome == <<"ok">>

(* JSON values are tagged: [t |-> "absent" | "null" | "bool" | "int" | "float" |
   "str" | "list" | "dict", v |-> the value]. A float carries its value in
   tenths (15 is 1.5). A plan is a dict with the keys order, cuts and
   audio_cues; a cut is [clip, start, end]; a cue is [time]. *)
Absent == [t |-> "absent", v |-> <<>>]
Null == [t |-> "null", v |-> <<>>]
JInt(n) == [t |-> "int", v |-> n]
JBool(b) == [t |-> "bool", v |-> b]
JFloat(tenths) == [t |-> "float", v |-> tenths]
JStr(x) == [t |-> "str", v |-> x]
JList(xs) == [t |-> "list", v |-> xs]
JCut(clip, start, end) == [t |-> "dict", v |-> [clip |-> clip, start |-> start, end |-> end]]
JCue(time) == [t |-> "dict", v |-> [time |-> time]]

EmptyPlan == [order |-> Absent, cuts |-> Absent, audio_cues |-> Absent]
NoResponse == [kind |-> "none", text |-> <<>>, plan |-> EmptyPlan]

\* state of one invocation at entry (before the for loop)
NewInvocation(max_retries, initial_wait, job_id, update_fn) ==
    [pc |-> "top", max_retries |-> max_retries, initial_wait |-> initial_wait,
     job_id |-> job_id, update_fn |-> update_fn,
     attempt |-> 0, calls |-> 0, outcomes |-> <<>>, sleeps |-> <<>>,
     wait_time |-> 0, last_error |-> NoError, response |-> NoResponse,
     updates |-> 0]

NotifiesWithoutJobId(inv) == inv.update_fn
Notifies(inv) == inv.update_fn /\ inv.job_id # NoJobId

\* str(n) for the small numbers that appear in messages
NumTok(n) == IF n = 0 THEN "0" ELSE <<"1", "2", "3", "4", "5", "6", "7", "8">>[n]

\* f"API retry {attempt}/{max_retries} (API temporarily busy)"
RetryMessage(inv) ==
    <<"API retry", NumTok(inv.attempt), "/", NumTok(inv.max_retries),
      "(API temporarily busy)">>

\* loop head of attempt > 0: update_fn(job_id, message="API retry ...")
InvTopWrites(inv) == inv.attempt > 0 /\ Notifies(inv)

InvTop(inv) ==
    [inv EXCEPT !.pc = "call",
                !.updates = IF InvTopWrites(inv) THEN @ + 1 ELSE @]

\* the job table after the loop head of `inv`
InvTopJobs(J, inv, stored) ==
    IF InvTopWrites(inv)
    THEN update_job(J, inv.job_id, [message |-> RetryMessage(inv)], stored)
    ELSE J

\* attempt < max_retries and is_retryable
ShouldSleepNoBudget(inv, err) == IsRetryable(err)
ShouldSleepAnyError(inv, err) == inv.attempt < inv.max_retries
ShouldSleep(inv, err) == inv.attempt < inv.max_retries /\ IsRetryable(err)

\* wait_time = initial_wait * (2 ** attempt)
WaitTimeLinear(inv) == inv.initial_wait * (inv.attempt + 1)
WaitTime(inv) == inv.initial_wait * Pow2(inv.attempt)

\* client.models.generate_content(...) returned `response`
InvCallOk(inv, response) ==
    [inv EXCEPT !.calls = @ + 1,
                !.outcomes = Append(@, OkOutcome),
                !.response = response,
                !.pc = IF inv.attempt > 0 /\ Notifies(inv) THEN "okmsg" ELSE "returned"]

\* last_error = e
LastErrorFirst(inv, err) == IF inv.last_error = NoError THEN err ELSE inv.last_error
LastError(inv, err) == err

\* client.models.generate_content(...) raised with text err
InvCallErr(inv, err) ==
    [inv EXCEPT !.calls = @ + 1,
                !.outcomes = Append(@, err),
                !.last_error = LastError(inv, err),
                !.wait_time = IF ShouldSleep(inv, err) THEN WaitTime(inv) ELSE @,
                !.pc = IF ShouldSleep(inv, err) THEN "sleep" ELSE "raised"]

\* update_fn(job_id, message="AI analysis in progress"); return response
InvOkMsg(inv) == [inv EXCEPT !.pc = "returned", !.updates = @ + 1]

InvOkMsgJobs(J, inv, stored) ==
    update_job(J, inv.job_id, [message |-> <<"AI analysis in progress">>], stored)

\* `for attempt in range(max_retries + 1)` has another iteration
LoopContinues(inv) == inv.attempt + 1 <= inv.max_retries

\* time.sleep(wait_time), then the next iteration of the for loop; when the
\* loop is exhausted, line 91: raise last_error
InvSleep(inv) ==
    [inv EXCEPT !.sleeps = Append(@, inv.wait_time),
                !.attempt = IF LoopContinues(inv) THEN @ + 1 ELSE @,
                !.pc = IF LoopContinues(inv) THEN "top" ELSE "raised"]

InvDone(inv) == inv.pc \in {"returned", "raised"}

\* responses the AI model can give: .text is a string (tokens "{" and "}",
\* "m" the members of a JSON object, anything else prose) or None
PlanReorderCut ==
    [order |-> JList(<<JInt(1), JInt(0)>>),
     cuts |-> JList(<<JCut(JInt(0), JStr("00:02"), JStr("00:08"))>>),
     audio_cues |-> Absent]
PlanCue ==
    [order |-> Absent, cuts |-> Absent,
     audio_cues |-> JList(<<JCue(JStr("00:03"))>>)]
PlanNullCuts ==
    [order |-> JList(<<JInt(5), JInt(1), JInt(1)>>), cuts |-> Null, audio_cues |-> Absent]
PlanScalarCues ==
    [order |-> Absent, cuts |-> Absent, audio_cues |-> JInt(3)]

Responses ==
    { [kind |-> "str", text |-> <<"x", "{", "m", "}", "x">>, plan |-> PlanReorderCut],
      [kind |-> "str", text |-> <<"{", "m", "}">>, plan |-> PlanCue],
      [kind |-> "str", text |-> <<"{", "m", "}">>, plan |-> PlanNullCuts],
      [kind |-> "str", text |-> <<"{", "m", "}">>, plan |-> PlanScalarCues],
      [kind |-> "str", text |-> <<"no", "json">>, plan |-> EmptyPlan],
      [kind |-> "None", text |-> <<>>, plan |-> EmptyPlan] }

(***************************************************************************)
(* parse_model_response                                                    *)
(***************************************************************************)
\* str.find / str.rfind on tokens: 0-based index, -1 when absent
Find(text, tok) ==
    IF \E i \in 1..Len(text) : text[i] = tok
    THEN (CHOOSE i \in 1..Len(text) :
            text[i] = tok /\ \A k \in 1..(i - 1) : text[k] # tok) - 1
    ELSE -1

RFindFirst(text, tok) == Find(text, tok)
RFind(text, tok) ==
    IF \E i \in 1..Len(text) : text[i] = tok
    THEN (CHOOSE i \in 1..Len(text) :
            text[i] = tok /\ \A k \in (i + 1)..Len(text) : text[k] # tok) - 1
    ELSE -1

\* text[start:end]
Slice(text, start, end) == SubSeq(text, start + 1, end)

\* json.loads accepts the text: an object, empty or with well-formed members
JsonValid(sub) == sub \in { <<"{", "}">>, <<"{", "m", "}">> }

\* json.loads(sub): the empty object, or the object the members "m" denote
JsonLoads(sub, response) == IF sub = <<"{", "}">> THEN EmptyPlan ELSE response.plan

Fallback(text) == [raised |-> FALSE, error |-> NoError, shape |-> "fallback",
                   plan |-> EmptyPlan, summary |-> text]

\* response_text after the first try block: response.text, or "" when reading
\* .text raises and the response has no candidates (kind "notext")
ResponseText(response) == IF response.kind = "notext" THEN <<>> ELSE response.text

parse_model_response(response) ==
    IF response.kind = "None"
    THEN \* response_text is None: None.find raises AttributeError, which the
         \* except json.JSONDecodeError clause does not catch
         [raised |-> TRUE, error |-> <<"'NoneType' object has no attribute 'find'">>,
          shape |-> "none", plan |-> EmptyPlan, summary |-> <<>>]
    ELSE LET text == ResponseText(response)
             start == Find(text, "{")
             end == RFind(text, "}") + 1
         IN  IF start # -1 /\ end > start /\ JsonValid(Slice(text, start, end))
             THEN [raised |-> FALSE, error |-> NoError, shape |-> "decoded",
                   plan |-> JsonLoads(Slice(text, start, end), response),
                   summary |-> <<>>]
             ELSE Fallback(text)

(***************************************************************************)
(* plan compilation in edit_multi_task                                     *)
(***************************************************************************)
\* int(item): [ok, v]; ok = FALSE when int() raises. int() takes an int as
\* it is, True and False as 1 and 0, a float cut towards zero, and a string
\* that spells an integer
ToInt(item) ==
    CASE item.t = "int" -> [ok |-> TRUE, v |-> item.v]
      [] item.t = "bool" -> [ok |-> TRUE, v |-> IF item.v THEN 1 ELSE 0]
      [] item.t = "float" ->
            [ok |-> TRUE,
             v |-> IF item.v >= 0 THEN item.v \div 10 ELSE -((-item.v) \div 10)]
      [] item.t = "str" /\ item.v \in {"0", "1", "2", "3", "4", "5"} ->
            [ok |-> TRUE,
             v |-> CHOOSE n \in 0..5 : NumTok(n) = item.v]
      [] OTHER -> [ok |-> FALSE, v |-> 0]

SeqContains(xs, x) == \E i \in 1..Len(xs) : xs[i] = x

RECURSIVE CleanFromKeepDuplicates(_, _, _)
CleanFromKeepDuplicates(items, n, acc) ==
    IF items = <<>> THEN acc
    ELSE LET c == ToInt(Head(items))
         IN  CleanFromKeepDuplicates(Tail(items), n,
                IF c.ok /\ 0 <= c.v /\ c.v < n THEN Append(acc, c.v) ELSE acc)

RECURSIVE CleanFrom(_, _, _)
CleanFrom(items, n, acc) ==
    IF items = <<>> THEN acc
    ELSE LET c == ToInt(Head(items))
         IN  CleanFrom(Tail(items), n,
                IF c.ok /\ 0 <= c.v /\ c.v < n /\ ~SeqContains(acc, c.v)
                THEN Append(acc, c.v) ELSE acc)

\* clean_order of edit_multi_task for n extracted clips
CleanOrder(raw_order, n) ==
    LET clean == IF raw_order.t = "list" THEN CleanFrom(raw_order.v, n, <<>>) ELSE <<>>
    IN  IF clean = <<>> THEN [i \in 1..n |-> i - 1] ELSE clean

\* `for cut in plan.get("cuts", [])` raises TypeError: the value is not iterable
CutsRaise(cuts) == cuts.t \in {"null", "bool", "int", "float"}

\* cuts_map.get(orig_idx, {}) or {} of a clip without a cut entry
NoCut == [set |-> FALSE, start |-> Absent, end |-> Absent]

\* cuts_map[clip_idx] = {"start": cut.get("start"), "end": cut.get("end")}
PutCutKeepFirst(acc, clip_idx, cut) ==
    [k \in DOMAIN acc \cup {clip_idx} |->
        IF k \in DOMAIN acc THEN acc[k]
        ELSE [set |-> TRUE, start |-> cut.v.start, end |-> cut.v.end]]
PutCut(acc, clip_idx, cut) ==
    [k \in DOMAIN acc \cup {clip_idx} |->
        IF k = clip_idx THEN [set |-> TRUE, start |-> cut.v.start, end |-> cut.v.end]
        ELSE acc[k]]

\* clip_idx = int(cut.get("clip")) of an entry that is a dict
ClipIndex(cut) ==
    IF cut.t = "dict" /\ "clip" \in DOMAIN cut.v
    THEN ToInt(cut.v.clip) ELSE [ok |-> FALSE, v |-> 0]

RECURSIVE CutsFromAnyClip(_, _, _)
CutsFromAnyClip(items, n, acc) ==
    IF items = <<>> THEN acc
    ELSE LET c == ClipIndex(Head(items))
         IN  CutsFromAnyClip(Tail(items), n,
                IF c.ok THEN PutCut(acc, c.v, Head(items)) ELSE acc)

RECURSIVE CutsFrom(_, _, _)
CutsFrom(items, n, acc) ==
    IF items = <<>> THEN acc
    ELSE LET c == ClipIndex(Head(items))
         IN  CutsFrom(Tail(items), n,
                IF c.ok /\ 0 <= c.v /\ c.v < n
                THEN PutCut(acc, c.v, Head(items)) ELSE acc)

\* cuts_map of edit_multi_task: a dict from clip index to cut. A string or a
\* dict value of `cuts` is iterated too, and none of its entries is a dict
CutsMap(cuts, n) ==
    CutsFrom(IF cuts.t = "list" THEN cuts.v ELSE <<>>, n, [k \in {} |-> NoCut])

\* Python truth value of a JSON value
Truthy(x) ==
    CASE x.t \in {"absent", "null"} -> FALSE
      [] x.t = "bool" -> x.v
      [] x.t \in {"int", "float"} -> x.v # 0
      [] x.t = "str" -> x.v # ""
      [] x.t = "list" -> x.v # <<>>
      [] OTHER -> TRUE

\* iterating plan.get("audio_cues") raises TypeError
CuesRaise(cues) == cues.t \in {"bool", "int", "float"} /\ Truthy(cues)

IsCueWithTime(c) == c.t = "dict" /\ "time" \in DOMAIN c.v /\ Truthy(c.v.time)

\* first_cue = next((c for c in cues if isinstance(c, dict) and c.get("time")), None)
HasFirstCue(cues) ==
    cues.t = "list" /\ \E i \in 1..Len(cues.v) : IsCueWithTime(cues.v[i])
FirstCueTime(cues) ==
    cues.v[CHOOSE i \in 1..Len(cues.v) :
              IsCueWithTime(cues.v[i]) /\ \A k \in 1..(i - 1) : ~IsCueWithTime(cues.v[k])].v.time

DefaultAudioStart == JStr("00:00")

\* audio_start after lines 589-592 of edit_multi_task
AdjustedAudioStartCueFirst(has_audio, cues, audio_start) ==
    IF has_audio /\ Truthy(cues) /\ HasFirstCue(cues)
    THEN FirstCueTime(cues) ELSE audio_start
AdjustedAudioStart(has_audio, cues, audio_start) ==
    IF has_audio /\ Truthy(cues) /\ HasFirstCue(cues) /\ audio_start = DefaultAudioStart
    THEN FirstCueTime(cues) ELSE audio_start

(***************************************************************************)
(* Files and the media tool                                                *)
(***************************************************************************)
ClipNames == <<"video0.mp4", "video1.mp4", "video2.mp4">>
FileNames ==
    {"input.mp4", "effect.mp3", "cut_video.mp4", "concat_video.mp4", "output_video.mp4"}
        \cup {ClipNames[i] : i \in 1..Len(ClipNames)}
Paths == JobIds \X FileNames

Exists(F, p) == F[p] # "none"

\* os.path.join(JOB_WORKDIR, job_id), os.path.join(job_dir, name)
JobDirShared(j) == "j1"
JobDir(j) == j
Join(dir, name) == <<dir, name>>

StderrTexts == { <<"ffmpeg:", "Invalid", "data">>, <<"ffmpeg:", "No", "such", "filter">> }

\* outcomes of subprocess.run(cmd, capture_output=True, text=True):
\* the exit code with the captured stderr, or OSError when the tool cannot start
RunOutcomes ==
    { [kind |-> "exit", rc |-> 0, stderr |-> <<>>] }
        \cup { [kind |-> "exit", rc |-> 1, stderr |-> e] : e \in StderrTexts }
        \cup { [kind |-> "oserror", rc |-> 1, stderr |-> <<"No such file:", "ffmpeg">>] }

\* the tool exits zero only after it wrote its output file (-y overwrites)
AfterRun(F, out, o) == IF o.kind = "exit" /\ o.rc = 0 THEN [F EXCEPT ![out] = "ffmpeg"] ELSE F

\* `if result.returncode != 0: raise RuntimeError(result.stderr)`, or the OSError
RunIgnoresExit(o) == o.kind = "oserror"
RunRaises(o) == o.kind = "oserror" \/ o.rc # 0

(***************************************************************************)
(* time_to_seconds and build_concat_command (video_tasks.py)               *)
(***************************************************************************)
\* str.split(":") of the time texts of the model, and of a text without ":"
TimeParts ==
    ("00:00" :> <<"00", "00">>) @@ ("00:01" :> <<"00", "01">>) @@
    ("00:02" :> <<"00", "02">>) @@ ("00:03" :> <<"00", "03">>) @@
    ("00:04" :> <<"00", "04">>) @@ ("00:05" :> <<"00", "05">>) @@
    ("00:06" :> <<"00", "06">>) @@ ("00:07" :> <<"00", "07">>) @@
    ("00:08" :> <<"00", "08">>) @@ ("00:09" :> <<"00", "09">>) @@
    ("01:00" :> <<"01", "00">>) @@ ("01:30" :> <<"01", "30">>) @@
    ("1:00:02" :> <<"1", "00", "02">>) @@ (":08" :> <<"", "08">>) @@
    ("x:08" :> <<"x", "08">>) @@ ("1:2:3:4" :> <<"1", "2", "3", "4">>) @@
    ("1:2:3:" :> <<"1", "2", "3", "">>) @@ ("00::08" :> <<"00", "", "08">>) @@
    ("00: 08" :> <<"00", " 08">>) @@ ("07: " :> <<"07", " ">>) @@
    ("-1:30" :> <<"-1", "30">>) @@ (":" :> <<"", "">>)
Split(text) == IF text \in DOMAIN TimeParts THEN TimeParts[text] ELSE <<text>>

\* float(part): [ok, v], in whole seconds; ok = FALSE when float() raises
PartValues ==
    ("00" :> 0) @@ ("01" :> 1) @@ ("02" :> 2) @@ ("03" :> 3) @@ ("04" :> 4) @@
    ("05" :> 5) @@ ("06" :> 6) @@ ("07" :> 7) @@ ("08" :> 8) @@ ("09" :> 9) @@
    ("30" :> 30) @@ ("1" :> 1) @@ ("2" :> 2) @@ ("3" :> 3) @@ ("4" :> 4) @@
    ("7" :> 7) @@ ("-1" :> -1) @@ ("-5" :> -5)
ToFloat(part) ==
    IF part \in DOMAIN PartValues THEN [ok |-> TRUE, v |-> PartValues[part]]
    ELSE [ok |-> FALSE, v |-> 0]

SecondsPerMinute == 60
SecondsPerHour == 3600

\* p.strip() for the parts of the model
Strip(part) ==
    CASE part = " " -> ""
      [] part = " 08" -> "08"
      [] OTHER -> part

\* str(time_str): the text itself, or the text Python prints for a number, a
\* boolean or a list
Str(x) ==
    CASE x.t = "str" -> x.v
      [] x.t = "int" -> (1 :> "1") [x.v]
      [] x.t = "bool" -> IF x.v THEN "True" ELSE "False"
      [] x.t = "list" -> "[1]"

\* parts = [p.strip() for p in str(time_str).split(":") if p.strip()]
StrippedPartsKeepEmpty(text) ==
    [i \in 1..Len(Split(text)) |-> Strip(Split(text)[i])]
StrippedParts(text) ==
    SelectSeq([i \in 1..Len(Split(text)) |-> Strip(Split(text)[i])], LAMBDA q : q # "")

\* time_to_seconds(time_str), in whole seconds
time_to_seconds(time_str) ==
    IF ~Truthy(time_str) THEN 0
    ELSE LET parts == StrippedParts(Str(time_str))
             f(i) == ToFloat(parts[i])
         IN  IF Len(parts) \notin 1..3 \/ \E i \in 1..Len(parts) : ~f(i).ok
             THEN 0
             ELSE IF Len(parts) = 1 THEN f(1).v
             ELSE IF Len(parts) = 2 THEN f(1).v * SecondsPerMinute + f(2).v
             ELSE f(1).v * SecondsPerHour + f(2).v * SecondsPerMinute + f(3).v

\* the copy of app.py:
\* parts = [p.strip() for p in str(time_str).split(':') if p.strip() != '']
AppStrippedPartsRawTest(text) ==
    LET raw == SelectSeq(Split(text), LAMBDA q : q # "")
    IN  [i \in 1..Len(raw) |-> Strip(raw[i])]
AppStrippedParts(text) ==
    SelectSeq([i \in 1..Len(Split(text)) |-> Strip(Split(text)[i])], LAMBDA q : q # "")

\* time_to_seconds of app.py, in whole seconds
app_time_to_seconds(time_str) ==
    IF ~Truthy(time_str) THEN 0
    ELSE LET parts == AppStrippedParts(Str(time_str))
             f(i) == ToFloat(parts[i])
         IN  IF Len(parts) \in 1..3 /\ \E i \in 1..Len(parts) : ~f(i).ok
             THEN 0
             ELSE IF Len(parts) = 1 THEN f(1).v
             ELSE IF Len(parts) = 2 THEN f(1).v * SecondsPerMinute + f(2).v
             ELSE IF Len(parts) = 3
             THEN f(1).v * SecondsPerHour + f(2).v * SecondsPerMinute + f(3).v
             ELSE 0

\* the pieces of a filter description: a name or an option with its number
Tok(k, v) == [k |-> k, v |-> v]
Comma == Tok(",", 0)

\* sep.join(parts), each part a run of pieces
RECURSIVE JoinTokens(_, _)
JoinTokens(sep, parts) ==
    IF parts = <<>> THEN <<>>
    ELSE IF Len(parts) = 1 THEN parts[1]
    ELSE parts[1] \o <<sep>> \o JoinTokens(sep, Tail(parts))

\* cut = cuts_map.get(orig_idx, {}) or {}
CutOf(cuts_map, orig_idx) ==
    IF orig_idx \in DOMAIN cuts_map THEN cuts_map[orig_idx] ELSE NoCut

\* start_sec = time_to_seconds(start) if start else None
SecOrNone(x) == [set |-> Truthy(x), v |-> IF Truthy(x) THEN time_to_seconds(x) ELSE 0]

\* trim_parts: f"start={start_sec}", f"end={end_sec}"
TrimParts(start_sec, end_sec) ==
    (IF start_sec.set THEN << <<Tok("start=", start_sec.v)>> >> ELSE <<>>)
        \o (IF end_sec.set THEN << <<Tok("end=", end_sec.v)>> >> ELSE <<>>)

\* trim_str = ",".join(trim_parts)
TrimStr(start_sec, end_sec) == JoinTokens(Comma, TrimParts(start_sec, end_sec))

\* get_video_dimensions(path): the (width, height) ffprobe reports for the
\* file, None when the probe fails; `probed` is what ffprobe answers per path
NoSize == [ok |-> FALSE, w |-> 0, h |-> 0]
Size(w, h) == [ok |-> TRUE, w |-> w, h |-> h]
get_video_dimensions(probed, path) == probed[path]

FallbackWidth == 854
FallbackHeight == 480

\* dimensions: `dims` of every path, the fallback where the probe failed
Dimensions(ordered_paths, probed) ==
    [i \in 1..Len(ordered_paths) |->
        LET dims == get_video_dimensions(probed, ordered_paths[i])
        IN  IF dims.ok THEN dims ELSE Size(FallbackWidth, FallbackHeight)]

\* target_w, target_h = dimensions[0] if dimensions else (854, 480)
TargetSizeLargest(dimensions) ==
    IF dimensions # <<>>
    THEN dimensions[CHOOSE i \in 1..Len(dimensions) :
                        \A k \in 1..Len(dimensions) : dimensions[k].w <= dimensions[i].w]
    ELSE Size(FallbackWidth, FallbackHeight)
TargetSize(dimensions) ==
    IF dimensions # <<>> THEN dimensions[1] ELSE Size(FallbackWidth, FallbackHeight)

\* f"scale={target_w}:{target_h}"
ScaleFilter(target) == <<Tok("scale=", target.w), Tok(":", target.h)>>

\* ",".join(v_filter_chain) (trim and reset names "trim=", "setpts", or
\* "atrim=", "asetpts" for the audio chain; `scale` is empty for the audio chain)
FilterChain(trim_name, reset_name, scale, cut) ==
    LET start_sec == SecOrNone(cut.start)
        end_sec == SecOrNone(cut.end)
        trim == IF start_sec.set \/ end_sec.set
                THEN << <<Tok(trim_name, 0)>> \o TrimStr(start_sec, end_sec) >>
                ELSE <<>>
    IN  JoinTokens(Comma,
            trim \o << <<Tok(reset_name, 0)>> >>
                 \o (IF scale # <<>> THEN <<scale>> ELSE <<>>))

\* ordered_paths = [video_paths[i] for i in clean_order]
OrderedPaths(j, order) == [i \in 1..Len(order) |-> <<j, ClipNames[order[i] + 1]>>]

\* build_concat_command: the -i inputs, the two filter chains of every
\* position (reading input stream i, writing the labels v<i>, a<i>), the
\* labels the concat filter reads in turn, its number of segments and the
\* output path
build_concat_command(ordered_paths, order_orig_indices, cuts_map, concat_path, probed) ==
    LET target == TargetSize(Dimensions(ordered_paths, probed))
    IN  [inputs |-> ordered_paths,
         chains |-> [i \in 1..Len(ordered_paths) |->
                        LET cut == CutOf(cuts_map, order_orig_indices[i])
                        IN  [stream |-> i - 1, label |-> i - 1,
                             v |-> FilterChain("trim=", "setpts", ScaleFilter(target), cut),
                             a |-> FilterChain("atrim=", "asetpts", <<>>, cut)]],
         concat_inputs |-> [i \in 1..Len(ordered_paths) |-> i - 1],
         n |-> Len(ordered_paths),
         out |-> concat_path]

(***************************************************************************)
(* build_ffmpeg_with_audio and the commands of edit_video_task             *)
(***************************************************************************)
\* f"{10 ** (audio_duck_db / 20):.2f}" in hundredths, for the levels of the model
DuckGains == (-20 :> 10) @@ (-8 :> 40) @@ (0 :> 100) @@ (6 :> 200)
DuckDbs == DOMAIN DuckGains

\* `if audio_duck_db < 0:`
DucksNonZero(audio_duck_db) == audio_duck_db # 0
Ducks(audio_duck_db) == audio_duck_db < 0

MillisPerSecond == 1000

\* int(audio_start_sec * 1000)
DelayMs(audio_start_sec) == audio_start_sec * MillisPerSecond

\* build_ffmpeg_with_audio: the two inputs, the filter graph (the gain on the
\* original audio when there is one, the delay of the effect per channel, the
\* mix of the two labels), the maps, the codecs and the output path
build_ffmpeg_with_audio(input_video, output_path, audio_path, audio_start, audio_duck_db) ==
    LET audio_start_sec == time_to_seconds(audio_start)
        duck == Ducks(audio_duck_db)
    IN  [inputs |-> <<input_video, audio_path>>,
         volume |-> IF duck
                    THEN [set |-> TRUE, src |-> "0:a", gain |-> DuckGains[audio_duck_db],
                          dst |-> "orig_audio"]
                    ELSE [set |-> FALSE, src |-> "0:a", gain |-> 0, dst |-> "0:a"],
         adelay |-> [src |-> "1:a",
                     delays |-> <<DelayMs(audio_start_sec), DelayMs(audio_start_sec)>>,
                     dst |-> "effect_audio"],
         amix |-> [srcs |-> <<IF duck THEN "orig_audio" ELSE "0:a", "effect_audio">>,
                   duration |-> "first", dst |-> "audio"],
         maps |-> <<"0:v:0", "[audio]">>,
         vcodec |-> "copy", acodec |-> "aac",
         out |-> output_path]

\* the entries the loop of edit_video_task turns into filter_parts
CutEntriesFirstOnly(edit_plan) ==
    LET cuts == SelectSeq(edit_plan, LAMBDA edit : edit.type = "cut")
    IN  IF cuts = <<>> THEN <<>> ELSE <<cuts[1]>>
CutEntries(edit_plan) == SelectSeq(edit_plan, LAMBDA edit : edit.type = "cut")

\* f"between(t,{start_sec},{end_sec})"
Between(edit) ==
    [start_sec |-> time_to_seconds(JStr(edit.start)),
     end_sec |-> time_to_seconds(JStr(edit.end))]

\* filter_parts of edit_video_task
EditFilterParts(edit_plan) ==
    LET cuts == CutEntries(edit_plan)
    IN  [i \in 1..Len(cuts) |-> Between(cuts[i])]

\* "select='not(" + "+".join(filter_parts) + ")',setpts=N/FRAME_RATE/TB" and the
\* aselect / asetpts text: the filter, the terms of the sum, the reset filter
SelectExpr(select_name, reset_name, filter_parts) ==
    [select |-> select_name, excluded |-> filter_parts, reset |-> reset_name]

NoCommand == [set |-> FALSE]

\* cmd_cut
CutCommand(video_path, filter_parts, temp_cut_path) ==
    [set |-> TRUE, input |-> video_path,
     vf |-> SelectExpr("select", "setpts=N/FRAME_RATE/TB", filter_parts),
     af |-> SelectExpr("aselect", "asetpts=N/SR/TB", filter_parts),
     out |-> temp_cut_path]

\* ["ffmpeg", "-i", src, "-c", "copy", "-y", output_path]
StreamCopy(src, output_path) ==
    [kind |-> "copy", input |-> src, codec |-> "copy", out |-> output_path]

\* cmd of edit_video_task: the audio mix when audio_path is set, else the copy
FinalCommand(src, output_path, audio_path, audio_start, audio_duck_db) ==
    IF audio_path # NoPath
    THEN [kind |-> "audio",
          mix |-> build_ffmpeg_with_audio(src, output_path, audio_path, audio_start,
                                          audio_duck_db)]
    ELSE StreamCopy(src, output_path)

\* the commands edit_video_task builds: cmd_cut when the plan has a cut
\* entry, and cmd, which reads the cut output when there was a cut pass
EditCommands(video_path, edit_plan, audio_path, audio_start, audio_duck_db) ==
    LET job_dir == video_path[1]
        output_path == Join(job_dir, "output_video.mp4")
        temp_cut_path == Join(job_dir, "cut_video.mp4")
        filter_parts == EditFilterParts(edit_plan)
    IN  IF edit_plan = <<>> \/ filter_parts = <<>>
        THEN [cut |-> NoCommand,
              final |-> FinalCommand(video_path, output_path, audio_path, audio_start,
                                     audio_duck_db)]
        ELSE [cut |-> CutCommand(video_path, filter_parts, temp_cut_path),
              final |-> FinalCommand(temp_cut_path, output_path, audio_path, audio_start,
                                     audio_duck_db)]

(***************************************************************************)
(* Progress checkpoints and terminal writes                                *)
(***************************************************************************)
AnalyzeStartProgress == 5
EditStartProgress == 10
EditRunProgress == 40
MultiStartProgress == 2
MultiAnalyzeProgressLow == MultiStartProgress - 1
MultiAnalyzeProgress == 5
MultiPlanProgress == 10
MultiConcatProgress == 25
MultiMixProgress == 60
DoneProgress == 100

AnalyzeMaxRetries == 3
AnalyzeInitialWait == 2
MultiMaxRetries == 5
MultiInitialWait == 3

FailPrefix(type) ==
    CASE type = "analyze" -> "Analysis failed: "
      [] type = "edit" -> "Render failed: "
      [] OTHER -> "Multi-clip render failed: "

\* update_job(job_id, status="failed", progress=100, message=f"<prefix>{e}")
FailedFieldsGeneric(type, text) ==
    [status |-> "failed", progress |-> DoneProgress, message |-> <<FailPrefix(type)>>]
FailedFieldsRequeued(type, text) ==
    [status |-> "queued", progress |-> DoneProgress, message |-> <<FailPrefix(type)>> \o text]
FailedFieldsWithPath(type, text) ==
    [status |-> "failed", progress |-> DoneProgress,
     message |-> <<FailPrefix(type)>> \o text,
     result_path |-> Join("j1", "output_video.mp4")]
FailedFields(type, text) ==
    [status |-> "failed", progress |-> DoneProgress, message |-> <<FailPrefix(type)>> \o text]

Dumps(x) == [set |-> TRUE, value |-> x]

\* the fields of the final update_job of each task
AnalyzeSucceededFields(result) ==
    [status |-> "succeeded", progress |-> DoneProgress, result_json |-> Dumps(result),
     message |-> <<"Analysis complete">>]
EditSucceededFields(output_path) ==
    [status |-> "succeeded", progress |-> DoneProgress, message |-> <<"Render complete">>,
     result_path |-> output_path]
MultiSucceededFieldsNoConcat(output_path, plan) ==
    [status |-> "succeeded", progress |-> DoneProgress,
     message |-> <<"Multi-clip render complete">>,
     result_path |-> Join(output_path[1], "output_video.mp4"), result_json |-> Dumps(plan)]
MultiSucceededFields(output_path, plan) ==
    [status |-> "succeeded", progress |-> DoneProgress,
     message |-> <<"Multi-clip render complete">>,
     result_path |-> output_path, result_json |-> Dumps(plan)]

(***************************************************************************)
(* Tasks                                                                   *)
(***************************************************************************)
NoTask ==
    [type |-> "none", dispatched |-> FALSE, edit_plan |-> <<>>, has_audio |-> FALSE,
     audio_start |-> DefaultAudioStart, nclips |-> 0]

IdleWorker ==
    [pc |-> "idle", inv |-> NewInvocation(0, 0, NoJobId, FALSE), exc |-> NoError,
     ret |-> "none", failed_stderr |-> NoError, runs |-> <<>>,
     parsed |-> Fallback(<<>>), order |-> <<>>, stored |-> TRUE,
     audio_start |-> DefaultAudioStart, output_path |-> NoPath]

\* entries of the edit plan a client sends to /api/edit-video
EditCut(start, end) == [type |-> "cut", start |-> start, end |-> end, time |-> ""]
EditCue(time) == [type |-> "audio_cue", start |-> "", end |-> "", time |-> time]
EditPlans ==
    { <<>>,
      <<EditCut("00:02", "00:08")>>,
      <<EditCut("00:02", "00:08"), EditCut("01:00", "01:30")>>,
      <<EditCue("00:03")>>,
      <<EditCue("00:03"), EditCut("00:02", "00:08")>> }

AudioStarts == {DefaultAudioStart, JStr("00:05")}

HasAudioCue(plan) == \E i \in 1..Len(plan) : plan[i].type = "audio_cue"
CueTimes(plan) == SelectSeq(plan, LAMBDA e : e.type = "audio_cue" /\ e.time # "")
HasCut(plan) == \E i \in 1..Len(plan) : plan[i].type = "cut"

\* the audio_path a task was given: edit_video passes the path of the file it
\* saved in the job directory, edit_multi passes the bare file name (a path
\* relative to the working directory of the worker)
AudioPath(j) ==
    IF ~task[j].has_audio THEN NoPath
    ELSE IF task[j].type = "edit" THEN Join(JobDir(j), "effect.mp3")
    ELSE <<"effect.mp3">>

(***************************************************************************)
(* Submission endpoints (app.py): insert the row, dispatch the task        *)
(***************************************************************************)
\* no request has been answered yet
NoReply == [op |-> "none", job |-> NoJobId, code |-> 0, artifact |-> "none"]

\* a response without a file: jsonify({...}), code
Reply(op, j, code) == [op |-> op, job |-> j, code |-> code, artifact |-> "none"]

\* the response of a submission after the INSERT: 202 with the job id when
\* .delay() returned, the 500 of `except Exception` when it raised
QueuedAlways202(j, dispatched) == Reply("submit", j, 202)
Queued(j, dispatched) == Reply("submit", j, IF dispatched THEN 202 ELSE 500)

Dispatch(j, args, dispatched) ==
    /\ task' = [task EXCEPT ![j] = [args EXCEPT !.dispatched = dispatched]]
    /\ wk' = [wk EXCEPT ![j] =
                [IdleWorker EXCEPT !.pc = IF dispatched THEN "start" ELSE "idle",
                                   !.audio_start = args.audio_start]]

\* POST /api/analyze-video
SubmitAnalyze(j, dispatched) ==
    /\ j \in ids
    /\ ids' = ids \ {j}
    /\ fs' = [fs EXCEPT ![Join(JobDir(j), "input.mp4")] = "upload"]
    /\ jobs' = [jobs EXCEPT ![j] = InsertedJob(<<"Queued for analysis">>)]
    /\ Dispatch(j, [NoTask EXCEPT !.type = "analyze"], dispatched)
    /\ http' = Queued(j, dispatched)
    /\ UNCHANGED <<storeFaults, call, pure, pay>>

\* audio_start after the cue_times adjustment of edit_video
EditAudioStart(plan, audio_start) ==
    IF plan # <<>> /\ CueTimes(plan) # <<>> /\ audio_start = DefaultAudioStart
    THEN JStr(CueTimes(plan)[1].time) ELSE audio_start

\* the audio_file part of the form: missing, present with an empty file name
\* (a file input left empty), or a named file
AudioParts == {"absent", "unnamed", "file"}

\* `if has_audio_cue and audio_file is None:` return the 400 response
RejectsCueWithoutAudio(plan, audio_file) == HasAudioCue(plan) /\ audio_file = "absent"

\* `if audio_file:` a file part is truthy when its file name is not empty
AudioSaved(audio_file) == audio_file = "file"

\* POST /api/edit-video
SubmitEdit(j, plan, audio_file, audio_start, dispatched) ==
    /\ j \in ids
    /\ (~AudioSaved(audio_file) => audio_start = DefaultAudioStart)
    /\ ~RejectsCueWithoutAudio(plan, audio_file)
    /\ ids' = ids \ {j}
    /\ fs' = [p \in Paths |->
                IF p = Join(JobDir(j), "input.mp4") THEN "upload"
                ELSE IF AudioSaved(audio_file) /\ p = Join(JobDir(j), "effect.mp3")
                     THEN "upload"
                ELSE fs[p]]
    /\ jobs' = [jobs EXCEPT ![j] = InsertedJob(<<"Queued for rendering">>)]
    /\ Dispatch(j, [NoTask EXCEPT !.type = "edit", !.edit_plan = plan,
                                  !.has_audio = AudioSaved(audio_file),
                                  !.audio_start = EditAudioStart(plan, audio_start)],
                dispatched)
    /\ http' = Queued(j, dispatched)
    /\ UNCHANGED <<storeFaults, call, pure, pay>>

\* POST /api/edit-multi: the clips go to the video_files table, the audio name
\* is passed to the task
SubmitEditMulti(j, n, has_audio, audio_start, dispatched) ==
    /\ j \in ids
    /\ n \in 1..Len(ClipNames)
    /\ (~has_audio => audio_start = DefaultAudioStart)
    /\ ids' = ids \ {j}
    /\ jobs' = [jobs EXCEPT ![j] = InsertedJob(<<"Queued for multi-clip rendering">>)]
    /\ Dispatch(j, [NoTask EXCEPT !.type = "edit-multi", !.nclips = n,
                                  !.has_audio = has_audio, !.audio_start = audio_start],
                dispatched)
    /\ http' = Queued(j, dispatched)
    /\ UNCHANGED <<fs, storeFaults, call, pure, pay>>

(***************************************************************************)
(* Worker steps common to the tasks                                        *)
(***************************************************************************)
\* the first update_job of a task
BeginFields(type) ==
    CASE type = "analyze" ->
            [status |-> "processing", message |-> <<"Analyzing video">>,
             progress |-> AnalyzeStartProgress]
      [] type = "edit" ->
            [status |-> "processing", message |-> <<"Rendering video">>,
             progress |-> EditStartProgress]
      [] OTHER ->
            [status |-> "processing", message |-> <<"Extracting videos from database">>,
             progress |-> MultiStartProgress]

AfterBegin(j) ==
    CASE task[j].type = "analyze" -> "read"
      [] task[j].type = "edit" -> IF HasCut(task[j].edit_plan) THEN "cut" ELSE "w40"
      [] OTHER -> "extract"

Begin(j) ==
    /\ wk[j].pc = "start"
    /\ \E stored \in WriteOutcomes :
        /\ jobs' = update_job(jobs, j, BeginFields(task[j].type), stored)
        /\ storeFaults' = Lost(stored)
        /\ wk' = [wk EXCEPT ![j].pc = AfterBegin(j), ![j].stored = stored]
    /\ UNCHANGED <<ids, task, fs, call, pure, http, pay>>

\* `except Exception as e:` of the task: the terminal write, `return {"error": ...}`
Caught(j, W, text) ==
    /\ \E stored \in WriteOutcomes :
        /\ jobs' = update_job(jobs, j, FailedFields(task[j].type, text), stored)
        /\ storeFaults' = Lost(stored)
        /\ wk' = [W EXCEPT ![j].pc = "done", ![j].exc = text, ![j].ret = "error",
                           ![j].stored = stored]

\* one job-record write that moves the task on
Write(j, W, fields, pc) ==
    /\ \E stored \in WriteOutcomes :
        /\ jobs' = update_job(jobs, j, fields, stored)
        /\ storeFaults' = Lost(stored)
        /\ wk' = [W EXCEPT ![j].pc = pc, ![j].stored = stored]

\* the task ran a subprocess with outcome o
Ran(j, name, o) ==
    [wk EXCEPT ![j].runs = Append(@, [cmd |-> name, rc |-> o.rc, kind |-> o.kind]),
               ![j].failed_stderr = IF o.kind = "exit" /\ o.rc # 0 THEN o.stderr ELSE @]

(***************************************************************************)
(* The AI call inside a task (analyze_video_task, edit_multi_task)         *)
(***************************************************************************)
InAi(j, pc) == wk[j].pc = "ai" /\ wk[j].inv.pc = pc

AiTop(j) ==
    /\ InAi(j, "top")
    /\ \E stored \in (IF InvTopWrites(wk[j].inv) THEN WriteOutcomes ELSE {TRUE}) :
        /\ jobs' = InvTopJobs(jobs, wk[j].inv, stored)
        /\ storeFaults' = Lost(stored)
        /\ wk' = [wk EXCEPT ![j].inv = InvTop(@), ![j].stored = stored]
    /\ UNCHANGED <<ids, task, fs, call, pure, http, pay>>

AiCallOk(j, response) ==
    /\ InAi(j, "call")
    /\ wk' = [wk EXCEPT ![j].inv = InvCallOk(@, response)]
    /\ UNCHANGED <<ids, jobs, task, fs, storeFaults, call, pure, http, pay>>

AiCallErr(j, err) ==
    /\ InAi(j, "call")
    /\ LET inv2 == InvCallErr(wk[j].inv, err)
           W == [wk EXCEPT ![j].inv = inv2]
       IN  IF inv2.pc = "raised"
           THEN Caught(j, W, inv2.last_error)
           ELSE wk' = W /\ UNCHANGED <<jobs, storeFaults>>
    /\ UNCHANGED <<ids, task, fs, call, pure, http, pay>>

AiOkMsg(j) ==
    /\ InAi(j, "okmsg")
    /\ \E stored \in WriteOutcomes :
        /\ jobs' = InvOkMsgJobs(jobs, wk[j].inv, stored)
        /\ storeFaults' = Lost(stored)
        /\ wk' = [wk EXCEPT ![j].inv = InvOkMsg(@), ![j].stored = stored]
    /\ UNCHANGED <<ids, task, fs, call, pure, http, pay>>

AiSleep(j) ==
    /\ InAi(j, "sleep")
    /\ wk' = [wk EXCEPT ![j].inv = InvSleep(@)]
    /\ UNCHANGED <<ids, jobs, task, fs, storeFaults, call, pure, http, pay>>

(***************************************************************************)
(* analyze_video_task                                                      *)
(***************************************************************************)
\* with open(video_path, "rb") as f: video_data = f.read()
A_Read(j) ==
    /\ wk[j].pc = "read"
    /\ IF Exists(fs, Join(JobDir(j), "input.mp4"))
       THEN /\ wk' = [wk EXCEPT ![j].pc = "ai",
                                ![j].inv = NewInvocation(AnalyzeMaxRetries,
                                              AnalyzeInitialWait, NoJobId, FALSE)]
            /\ UNCHANGED <<jobs, storeFaults>>
       ELSE Caught(j, wk, <<"No such file or directory:", "input.mp4">>)
    /\ UNCHANGED <<ids, task, fs, call, pure, http, pay>>

\* result = parse_model_response(response); the final update_job; return result
A_Finish(j) ==
    /\ task[j].type = "analyze"
    /\ InAi(j, "returned")
    /\ LET r == parse_model_response(wk[j].inv.response)
           W == [wk EXCEPT ![j].parsed = r]
       IN  IF r.raised
           THEN Caught(j, W, r.error)
           ELSE Write(j, [W EXCEPT ![j].ret = "result"], AnalyzeSucceededFields(r), "done")
    /\ UNCHANGED <<ids, task, fs, call, pure, http, pay>>

(***************************************************************************)
(* edit_video_task                                                         *)
(***************************************************************************)
\* subprocess.run(cmd_cut): the cut pass, run when the plan has a cut entry
E_Cut(j, o) ==
    /\ wk[j].pc = "cut"
    /\ LET W == Ran(j, "cut", o)
       IN  IF RunRaises(o)
           THEN Caught(j, W, o.stderr) /\ UNCHANGED fs
           ELSE /\ wk' = [W EXCEPT ![j].pc = "w40"]
                /\ fs' = AfterRun(fs, Join(JobDir(j), "cut_video.mp4"), o)
                /\ UNCHANGED <<jobs, storeFaults>>
    /\ UNCHANGED <<ids, task, call, pure, http, pay>>

\* update_job(job_id, progress=40, message="Running ffmpeg")
E_W40(j) ==
    /\ wk[j].pc = "w40"
    /\ Write(j, wk, [progress |-> EditRunProgress, message |-> <<"Running ffmpeg">>], "final")
    /\ UNCHANGED <<ids, task, fs, call, pure, http, pay>>

\* subprocess.run(cmd): the audio mix or the stream copy into output_video.mp4
E_Final(j, o) ==
    /\ wk[j].pc = "final"
    /\ LET W == Ran(j, IF task[j].has_audio THEN "audio" ELSE "copy", o)
           out == Join(JobDir(j), "output_video.mp4")
       IN  IF RunRaises(o)
           THEN Caught(j, W, o.stderr) /\ UNCHANGED fs
           ELSE /\ wk' = [W EXCEPT ![j].pc = "succ", ![j].output_path = out]
                /\ fs' = AfterRun(fs, out, o)
                /\ UNCHANGED <<jobs, storeFaults>>
    /\ UNCHANGED <<ids, task, call, pure, http, pay>>

\* the final update_job; return {"output_path": output_path}
E_Succeed(j) ==
    /\ task[j].type = "edit"
    /\ wk[j].pc = "succ"
    /\ Write(j, [wk EXCEPT ![j].ret = "result"], EditSucceededFields(wk[j].output_path), "done")
    /\ UNCHANGED <<ids, task, fs, call, pure, http, pay>>

(***************************************************************************)
(* edit_multi_task                                                         *)
(***************************************************************************)
ClipPath(j, i) == Join(JobDir(j), ClipNames[i + 1])

\* The `try:` of line 470 has no except or finally clause (the file does not
\* compile as written): an exception raised under it either leaves the task,
\* or is handled by the `except Exception` of line 614.
ExtractionHandlers == {"propagate", "except"}

ExtractRaised(j, text) ==
    \E h \in ExtractionHandlers :
        IF h = "except"
        THEN Caught(j, wk, text)
        ELSE /\ wk' = [wk EXCEPT ![j].pc = "done", ![j].exc = text, ![j].ret = "escaped"]
             /\ UNCHANGED <<jobs, storeFaults>>

\* what the query of get_all_videos_for_job meets: no connection, no row of
\* the job in video_files, or the rows the endpoint stored
ExtractionOutcomes == {"unreachable", "none", "all"}

\* get_all_videos_for_job: read the video_files rows, write them to disk
M_Extract(j, rows) ==
    /\ wk[j].pc = "extract"
    /\ IF rows = "unreachable"
       THEN ExtractRaised(j, <<"connection", "to", "server", "failed">>) /\ UNCHANGED fs
       ELSE IF rows = "none" \/ task[j].nclips = 0
       THEN ExtractRaised(j, <<"No videos found in database for job", j>>) /\ UNCHANGED fs
       ELSE /\ fs' = [p \in Paths |->
                        IF \E i \in 0..(task[j].nclips - 1) : p = ClipPath(j, i)
                        THEN "extract" ELSE fs[p]]
            /\ wk' = [wk EXCEPT ![j].pc = "w5"]
            /\ UNCHANGED <<jobs, storeFaults>>
    /\ UNCHANGED <<ids, task, call, pure, http, pay>>

\* update_job(job_id, status="processing", message="Analyzing instructions", progress=5)
M_W5(j) ==
    /\ wk[j].pc = "w5"
    /\ Write(j, wk, [status |-> "processing", message |-> <<"Analyzing instructions">>,
                     progress |-> MultiAnalyzeProgress], "validate")
    /\ UNCHANGED <<ids, task, fs, call, pure, http, pay>>

\* the existence checks, the probes, the prompt, update_job(progress=10, ...)
\* audio_exists: os.path.exists(audio_path) for the relative audio path
M_Validate(j, audio_exists) ==
    /\ wk[j].pc = "validate"
    /\ (~task[j].has_audio => audio_exists)
    /\ IF \E i \in 0..(task[j].nclips - 1) : ~Exists(fs, ClipPath(j, i))
       THEN Caught(j, wk, <<"Video file not found:", "video.mp4">>)
       ELSE IF task[j].has_audio /\ ~audio_exists
       THEN Caught(j, wk, <<"Audio file not found:", "effect.mp3">>)
       ELSE Write(j, [wk EXCEPT ![j].inv = NewInvocation(MultiMaxRetries,
                                              MultiInitialWait, j, TRUE)],
                  [progress |-> MultiPlanProgress,
                   message |-> <<"Getting AI edit plan (may retry if API overloaded)">>],
                  "ai")
    /\ UNCHANGED <<ids, task, fs, call, pure, http, pay>>

\* parse_model_response, clean_order, cuts_map, build_concat_command,
\* update_job(progress=25, message="Concatenating clips")
M_Compile(j) ==
    /\ task[j].type = "edit-multi"
    /\ InAi(j, "returned")
    /\ LET r == parse_model_response(wk[j].inv.response)
           W == [wk EXCEPT ![j].parsed = r,
                           ![j].order = CleanOrder(r.plan.order, task[j].nclips)]
       IN  IF r.raised
           THEN Caught(j, W, r.error)
           ELSE IF CutsRaise(r.plan.cuts)
           THEN Caught(j, W, <<"object is not iterable">>)
           ELSE Write(j, W, [progress |-> MultiConcatProgress,
                             message |-> <<"Concatenating clips">>], "concat")
    /\ UNCHANGED <<ids, task, fs, call, pure, http, pay>>

\* `if audio_path:` after the concatenation: mix the audio, or take the
\* concat output as final
AfterConcatAlwaysMix(has_audio) == "w60"
AfterConcat(has_audio) == IF has_audio THEN "w60" ELSE "succ"

\* subprocess.run(cmd_concat); without audio the concat output is final
M_Concat(j, o) ==
    /\ wk[j].pc = "concat"
    /\ LET W == Ran(j, "concat", o)
           out == Join(JobDir(j), "concat_video.mp4")
       IN  IF RunRaises(o)
           THEN Caught(j, W, o.stderr) /\ UNCHANGED fs
           ELSE /\ wk' = [W EXCEPT ![j].pc = AfterConcat(task[j].has_audio),
                                   ![j].output_path = IF task[j].has_audio THEN @ ELSE out]
                /\ fs' = AfterRun(fs, out, o)
                /\ UNCHANGED <<jobs, storeFaults>>
    /\ UNCHANGED <<ids, task, call, pure, http, pay>>

\* the audio_cues adjustment, build_ffmpeg_with_audio,
\* update_job(progress=60, message="Mixing audio")
M_W60(j) ==
    /\ wk[j].pc = "w60"
    /\ LET cues == wk[j].parsed.plan.audio_cues
       IN  IF Truthy(cues) /\ CuesRaise(cues)
           THEN Caught(j, wk, <<"object is not iterable">>)
           ELSE Write(j, [wk EXCEPT ![j].audio_start =
                                AdjustedAudioStart(task[j].has_audio, cues, @)],
                      [progress |-> MultiMixProgress, message |-> <<"Mixing audio">>], "mix")
    /\ UNCHANGED <<ids, task, fs, call, pure, http, pay>>

\* subprocess.run(cmd_audio)
M_Mix(j, o) ==
    /\ wk[j].pc = "mix"
    /\ LET W == Ran(j, "audio", o)
           out == Join(JobDir(j), "output_video.mp4")
       IN  IF RunRaises(o)
           THEN Caught(j, W, o.stderr) /\ UNCHANGED fs
           ELSE /\ wk' = [W EXCEPT ![j].pc = "succ", ![j].output_path = out]
                /\ fs' = AfterRun(fs, out, o)
                /\ UNCHANGED <<jobs, storeFaults>>
    /\ UNCHANGED <<ids, task, call, pure, http, pay>>

\* the final update_job; return {"output_path": output_path, "plan": plan}
M_Succeed(j) ==
    /\ task[j].type = "edit-multi"
    /\ wk[j].pc = "succ"
    /\ Write(j, [wk EXCEPT ![j].ret = "result"],
             MultiSucceededFields(wk[j].output_path, wk[j].parsed), "done")
    /\ UNCHANGED <<ids, task, fs, call, pure, http, pay>>

(***************************************************************************)
(* Payments (app.py): initialize_payment and verify_payment for one        *)
(* reference of one user; the server handles requests in threads, so two   *)
(* verifications of the reference can overlap                              *)
(***************************************************************************)
Verifiers == {"v1", "v2"}
\* number of commits to the transaction row in one behaviour
MaxPayWrites == 3

IdleRequest == [pc |-> "idle", data |-> "none", code |-> 0]

\* provider: what Paystack reports for the reference; txn: the row of the
\* transactions table (status "absent" = no row), writes = commits that set
\* updated_at; user: subscription_status of the user and the number of times
\* subscription_end_date was set
NoPayment ==
    [provider |-> "abandoned",
     txn |-> [status |-> "absent", writes |-> 0],
     user |-> [subscription_status |-> "free", renewals |-> 0],
     req |-> [v \in Verifiers |-> IdleRequest]]

\* initialize_payment for a known user and an active plan:
\* INSERT INTO transactions (..., status) VALUES (..., 'pending')
InitializePayment ==
    /\ pay.txn.status = "absent"
    /\ pay' = [pay EXCEPT !.txn.status = "pending"]
    /\ UNCHANGED <<ids, jobs, task, wk, fs, storeFaults, call, pure, http>>

\* the customer completes the payment at the provider
CustomerPays ==
    /\ pay.txn.status # "absent"
    /\ pay.provider = "abandoned"
    /\ pay' = [pay EXCEPT !.provider = "success"]
    /\ UNCHANGED <<ids, jobs, task, wk, fs, storeFaults, call, pure, http>>

\* verify_payment up to the SELECT: paystack.transaction.verify(reference);
\* `if not response['status']` answers 400, an exception answers 500
V_Verify(v, answered) ==
    /\ pay.req[v].pc = "idle"
    /\ pay.txn.writes < MaxPayWrites
    /\ pay' = [pay EXCEPT !.req[v] =
                IF answered THEN [pc |-> "select", data |-> pay.provider, code |-> 0]
                ELSE [pc |-> "done", data |-> "none", code |-> 400]]
    /\ UNCHANGED <<ids, jobs, task, wk, fs, storeFaults, call, pure, http>>

\* SELECT user_id, plan_id, status FROM transactions WHERE reference = ...:
\* 404 without a row, 200 'Payment already verified' when status is success
V_Select(v) ==
    /\ pay.req[v].pc = "select"
    /\ pay' = [pay EXCEPT !.req[v] =
                IF pay.txn.status = "absent" THEN [@ EXCEPT !.pc = "done", !.code = 404]
                ELSE IF pay.txn.status = "success" THEN [@ EXCEPT !.pc = "done", !.code = 200]
                ELSE [@ EXCEPT !.pc = "update"]]
    /\ UNCHANGED <<ids, jobs, task, wk, fs, storeFaults, call, pure, http>>

\* the UPDATEs and conn.commit(): with transaction_data['status'] == 'success'
\* the transaction becomes success and the user active in one commit (200),
\* otherwise the transaction becomes failed (400); the UPDATE of the
\* transaction has no condition on its present status
V_Commit(v) ==
    /\ pay.req[v].pc = "update"
    /\ pay' = IF pay.req[v].data = "success"
              THEN [pay EXCEPT !.txn = [status |-> "success", writes |-> @.writes + 1],
                               !.user = [subscription_status |-> "active",
                                         renewals |-> @.renewals + 1],
                               !.req[v] = [@ EXCEPT !.pc = "done", !.code = 200]]
              ELSE [pay EXCEPT !.txn = [status |-> "failed", writes |-> @.writes + 1],
                               !.req[v] = [@ EXCEPT !.pc = "done", !.code = 400]]
    /\ UNCHANGED <<ids, jobs, task, wk, fs, storeFaults, call, pure, http>>

\* the response is sent; the thread can take the next request
V_Return(v) ==
    /\ pay.req[v].pc = "done"
    /\ pay' = [pay EXCEPT !.req[v] = IdleRequest]
    /\ UNCHANGED <<ids, jobs, task, wk, fs, storeFaults, call, pure, http>>

InitPay ==
    /\ ids = {}
    /\ jobs = [j \in JobIds |-> AbsentJob]
    /\ task = [j \in JobIds |-> NoTask]
    /\ wk = [j \in JobIds |-> IdleWorker]
    /\ fs = [p \in Paths |-> "none"]
    /\ storeFaults = 0
    /\ call = NewInvocation(0, 0, NoJobId, FALSE)
    /\ pure = [op |-> "none", done |-> FALSE]
    /\ http = NoReply
    /\ pay = NoPayment

NextPay ==
    \/ InitializePayment
    \/ CustomerPays
    \/ \E v \in Verifiers, answered \in BOOLEAN : V_Verify(v, answered)
    \/ \E v \in Verifiers : V_Select(v)
    \/ \E v \in Verifiers : V_Commit(v)
    \/ \E v \in Verifiers : V_Return(v)

SpecPay == InitPay /\ [][NextPay]_vars

(***************************************************************************)
(* The job pipeline                                                        *)
(***************************************************************************)
IdleCall == NewInvocation(0, 0, NoJobId, FALSE)
\* no pure function is being applied
NoApplication == [op |-> "none", done |-> FALSE]

Init ==
    /\ ids = {"j1"}
    /\ jobs = [j \in JobIds |-> AbsentJob]
    /\ task = [j \in JobIds |-> NoTask]
    /\ wk = [j \in JobIds |-> IdleWorker]
    /\ fs = [p \in Paths |-> "none"]
    /\ storeFaults = MaxStoreFaults
    /\ call = IdleCall
    /\ pure = NoApplication
    /\ http = NoReply
    /\ pay = NoPayment

\* the same pipeline over a store that carries out every write
InitStoreUp ==
    /\ ids = {"j1"}
    /\ jobs = [j \in JobIds |-> AbsentJob]
    /\ task = [j \in JobIds |-> NoTask]
    /\ wk = [j \in JobIds |-> IdleWorker]
    /\ fs = [p \in Paths |-> "none"]
    /\ storeFaults = 0
    /\ call = IdleCall
    /\ pure = NoApplication
    /\ http = NoReply
    /\ pay = NoPayment

Next ==
    \/ \E j \in JobIds, d \in BOOLEAN : SubmitAnalyze(j, d)
    \/ \E j \in JobIds, plan \in EditPlans, a \in AudioParts, st \in AudioStarts,
          d \in BOOLEAN : SubmitEdit(j, plan, a, st, d)
    \/ \E j \in JobIds, n \in 1..Len(ClipNames), a \in BOOLEAN, st \in AudioStarts,
          d \in BOOLEAN : SubmitEditMulti(j, n, a, st, d)
    \/ \E j \in JobIds : Begin(j)
    \/ \E j \in JobIds : AiTop(j)
    \/ \E j \in JobIds, response \in Responses : AiCallOk(j, response)
    \/ \E j \in JobIds, err \in JobErrorTexts : AiCallErr(j, err)
    \/ \E j \in JobIds : AiOkMsg(j)
    \/ \E j \in JobIds : AiSleep(j)
    \/ \E j \in JobIds : A_Read(j)
    \/ \E j \in JobIds : A_Finish(j)
    \/ \E j \in JobIds, o \in RunOutcomes : E_Cut(j, o)
    \/ \E j \in JobIds : E_W40(j)
    \/ \E j \in JobIds, o \in RunOutcomes : E_Final(j, o)
    \/ \E j \in JobIds : E_Succeed(j)
    \/ \E j \in JobIds, rows \in ExtractionOutcomes : M_Extract(j, rows)
    \/ \E j \in JobIds : M_W5(j)
    \/ \E j \in JobIds, audio_exists \in BOOLEAN : M_Validate(j, audio_exists)
    \/ \E j \in JobIds : M_Compile(j)
    \/ \E j \in JobIds, o \in RunOutcomes : M_Concat(j, o)
    \/ \E j \in JobIds : M_W60(j)
    \/ \E j \in JobIds, o \in RunOutcomes : M_Mix(j, o)
    \/ \E j \in JobIds : M_Succeed(j)

Spec == Init /\ [][Next]_vars

SpecStoreUp == InitStoreUp /\ [][Next]_vars

(***************************************************************************)
(* The job endpoints of app.py over two job ids: requests that are         *)
(* refused, the download of a result, and the tasks of two jobs running    *)
(* on different workers                                                    *)
(***************************************************************************)
\* the video_file part of a form: missing, present with an empty file name,
\* or a named file
VideoParts == {"absent", "unnamed", "file"}

\* the status analyze_video returns before it creates a job (0: none)
AnalyzeRefusal(video_file) ==
    IF video_file = "absent" THEN 400
    ELSE IF video_file = "unnamed" THEN 400
    ELSE 0

\* the status edit_video returns before it creates a job (0: none);
\* duck_ok: float() accepts the audio_duck_db field, json_ok: json.loads
\* accepts the edit_plan field
EditRefusal(video_file, duck_ok, json_ok, plan, audio_file) ==
    IF video_file = "absent" THEN 400
    ELSE IF ~duck_ok THEN 500
    ELSE IF video_file = "unnamed" THEN 400
    ELSE IF ~json_ok THEN 400
    ELSE IF RejectsCueWithoutAudio(plan, audio_file) THEN 400
    ELSE 0

\* `if len(video_files) > 3`
MaxUploads == 3

\* the status edit_multi returns before it inserts a job (0: none);
\* nfiles: parts named video_files, nvalid: those with a file name
EditMultiRefusal(nfiles, nvalid, has_prompt) ==
    IF nfiles = 0 THEN 400
    ELSE IF nfiles > MaxUploads THEN 400
    ELSE IF ~has_prompt THEN 400
    ELSE IF nvalid = 0 THEN 400
    ELSE 0

\* a request that is answered before a job is created
Refused(op, code) ==
    /\ code # 0
    /\ http' = Reply(op, NoJobId, code)
    /\ UNCHANGED <<ids, jobs, task, wk, fs, storeFaults, call, pure, pay>>

RefuseAnalyze(video_file) == Refused("analyze", AnalyzeRefusal(video_file))

RefuseEdit(video_file, duck_ok, json_ok, plan, audio_file) ==
    Refused("edit", EditRefusal(video_file, duck_ok, json_ok, plan, audio_file))

RefuseEditMulti(nfiles, nvalid, has_prompt) ==
    Refused("edit-multi", EditMultiRefusal(nfiles, nvalid, has_prompt))

\* a valid submission whose INSERT raises: analyze_video and edit_video have
\* saved the upload in the job directory, no row is written, .delay() is not
\* reached and `except Exception` answers 500
InsertFailsThenDispatches(j, type) ==
    /\ j \in ids
    /\ ids' = ids \ {j}
    /\ fs' = IF type = "edit-multi" THEN fs
             ELSE [fs EXCEPT ![Join(JobDir(j), "input.mp4")] = "upload"]
    /\ http' = Reply(type, NoJobId, 500)
    /\ Dispatch(j, [NoTask EXCEPT !.type = type, !.nclips = 1], TRUE)
    /\ UNCHANGED <<jobs, storeFaults, call, pure, pay>>
InsertFails(j, type) ==
    /\ j \in ids
    /\ ids' = ids \ {j}
    /\ fs' = IF type = "edit-multi" THEN fs
             ELSE [fs EXCEPT ![Join(JobDir(j), "input.mp4")] = "upload"]
    /\ http' = Reply(type, NoJobId, 500)
    /\ UNCHANGED <<jobs, task, wk, storeFaults, call, pure, pay>>

\* download_video_job: the response to GET /api/video-jobs/<job_id>/download
download_without_ready_test(J, F, j) ==
    IF J[j].status = "absent" THEN Reply("download", j, 404)
    ELSE IF J[j].result_path = NoPath
         THEN [op |-> "download", job |-> j, code |-> 200, artifact |-> "empty"]
    ELSE IF ~Exists(F, J[j].result_path) THEN Reply("download", j, 404)
    ELSE [op |-> "download", job |-> j, code |-> 200, artifact |-> F[J[j].result_path]]
download_video_job(J, F, j) ==
    IF J[j].status = "absent" THEN Reply("download", j, 404)
    ELSE IF J[j].status # "succeeded" \/ J[j].result_path = NoPath
         THEN Reply("download", j, 400)
    ELSE IF ~Exists(F, J[j].result_path) THEN Reply("download", j, 404)
    ELSE [op |-> "download", job |-> j, code |-> 200, artifact |-> F[J[j].result_path]]

\* db_up: the SELECT is carried out; otherwise `except Exception` answers 500
Download(j, db_up) ==
    /\ http' = IF db_up THEN download_video_job(jobs, fs, j)
                ELSE Reply("download", j, 500)
    /\ UNCHANGED <<ids, jobs, task, wk, fs, storeFaults, call, pure, pay>>

\* the other fields of the edit_video forms that are drawn
EditForms ==
    { [duck_ok |-> TRUE, json_ok |-> TRUE, plan |-> <<>>, audio_file |-> "absent"],
      [duck_ok |-> TRUE, json_ok |-> TRUE, plan |-> <<EditCue("00:03")>>,
       audio_file |-> "absent"],
      [duck_ok |-> TRUE, json_ok |-> TRUE, plan |-> <<EditCue("00:03")>>,
       audio_file |-> "unnamed"],
      [duck_ok |-> TRUE, json_ok |-> FALSE, plan |-> <<>>, audio_file |-> "file"],
      [duck_ok |-> FALSE, json_ok |-> TRUE, plan |-> <<>>, audio_file |-> "file"] }

JobTypes == {"analyze", "edit", "edit-multi"}

\* the requests that do not queue a job
Answer ==
    \/ \E video_file \in VideoParts : RefuseAnalyze(video_file)
    \/ \E video_file \in VideoParts, f \in EditForms :
          RefuseEdit(video_file, f.duck_ok, f.json_ok, f.plan, f.audio_file)
    \/ \E nfiles \in 0..(MaxUploads + 1), has_prompt \in BOOLEAN :
          \E nvalid \in {0, nfiles} : RefuseEditMulti(nfiles, nvalid, has_prompt)
    \/ \E j \in JobIds, type \in JobTypes : InsertFails(j, type)
    \/ \E j \in JobIds, db_up \in BOOLEAN : Download(j, db_up)

\* the endpoints and the pipeline of one job over a store that carries out
\* every write
NextApi == Answer \/ Next

SpecApi == InitStoreUp /\ [][NextApi]_vars

(***************************************************************************)
(* Two jobs whose tasks run on different workers                           *)
(***************************************************************************)
\* the inputs drawn for the two tasks
TwoJobsPlans == { <<>>, <<EditCut("00:02", "00:08")>>, <<EditCue("00:03")>> }
TwoJobsResponses == { r \in Responses : r.plan = PlanReorderCut }
TwoJobsErrorTexts == { <<"503", "UNAVAILABLE">> }
TwoJobsRunOutcomes ==
    { o \in RunOutcomes : o.kind = "exit" /\ o.stderr # <<"ffmpeg:", "No", "such", "filter">> }

InitTwoJobs ==
    /\ ids = JobIds
    /\ jobs = [j \in JobIds |-> AbsentJob]
    /\ task = [j \in JobIds |-> NoTask]
    /\ wk = [j \in JobIds |-> IdleWorker]
    /\ fs = [p \in Paths |-> "none"]
    /\ storeFaults = 0
    /\ call = IdleCall
    /\ pure = NoApplication
    /\ http = NoReply
    /\ pay = NoPayment

NextTwoJobs ==
    \/ \E j \in JobIds, d \in BOOLEAN : SubmitAnalyze(j, d)
    \/ \E j \in JobIds, plan \in TwoJobsPlans, a \in {"absent", "file"}, d \in BOOLEAN :
          SubmitEdit(j, plan, a, DefaultAudioStart, d)
    \/ \E j \in JobIds, n \in {1, Len(ClipNames)}, a \in BOOLEAN, d \in BOOLEAN :
          SubmitEditMulti(j, n, a, DefaultAudioStart, d)
    \/ \E j \in JobIds : Begin(j)
    \/ \E j \in JobIds : AiTop(j)
    \/ \E j \in JobIds, response \in TwoJobsResponses : AiCallOk(j, response)
    \/ \E j \in JobIds, err \in TwoJobsErrorTexts : AiCallErr(j, err)
    \/ \E j \in JobIds : AiOkMsg(j)
    \/ \E j \in JobIds : AiSleep(j)
    \/ \E j \in JobIds : A_Read(j)
    \/ \E j \in JobIds : A_Finish(j)
    \/ \E j \in JobIds, o \in TwoJobsRunOutcomes : E_Cut(j, o)
    \/ \E j \in JobIds : E_W40(j)
    \/ \E j \in JobIds, o \in TwoJobsRunOutcomes : E_Final(j, o)
    \/ \E j \in JobIds : E_Succeed(j)
    \/ \E j \in JobIds, rows \in ExtractionOutcomes : M_Extract(j, rows)
    \/ \E j \in JobIds : M_W5(j)
    \/ \E j \in JobIds, audio_exists \in BOOLEAN : M_Validate(j, audio_exists)
    \/ \E j \in JobIds : M_Compile(j)
    \/ \E j \in JobIds, o \in TwoJobsRunOutcomes : M_Concat(j, o)
    \/ \E j \in JobIds : M_W60(j)
    \/ \E j \in JobIds, o \in TwoJobsRunOutcomes : M_Mix(j, o)
    \/ \E j \in JobIds : M_Succeed(j)

SpecTwoJobs == InitTwoJobs /\ [][NextTwoJobs]_vars

(***************************************************************************)
(* A stand-alone invocation of call_gemini_with_retry, for every           *)
(* max_retries, initial_wait, job_id and update_fn within the bounds       *)
(***************************************************************************)
\* the row of a job whose task is at its AI call
RowAtAiCall ==
    [InsertedJob(<<"Getting AI edit plan (may retry if API overloaded)">>)
        EXCEPT !.status = "processing", !.progress = MultiPlanProgress, !.updated_at = 3]

InitRetry ==
    /\ ids = {}
    /\ jobs = [j \in JobIds |-> IF j = "j1" THEN RowAtAiCall ELSE AbsentJob]
    /\ task = [j \in JobIds |-> NoTask]
    /\ wk = [j \in JobIds |-> IdleWorker]
    /\ fs = [p \in Paths |-> "none"]
    /\ storeFaults = MaxStoreFaults
    /\ \E m \in 0..MaxRetriesBound, w \in 1..MaxInitialWait,
          jid \in {NoJobId, "j1"}, fn \in BOOLEAN :
            call = NewInvocation(m, w, jid, fn)
    /\ pure = NoApplication
    /\ http = NoReply
    /\ pay = NoPayment

R_Top ==
    /\ call.pc = "top"
    /\ \E stored \in (IF InvTopWrites(call) THEN WriteOutcomes ELSE {TRUE}) :
        /\ jobs' = InvTopJobs(jobs, call, stored)
        /\ storeFaults' = Lost(stored)
    /\ call' = InvTop(call)
    /\ UNCHANGED <<ids, task, wk, fs, pure, http, pay>>

R_CallOk(response) ==
    /\ call.pc = "call"
    /\ call' = InvCallOk(call, response)
    /\ UNCHANGED <<ids, jobs, task, wk, fs, storeFaults, pure, http, pay>>

R_CallErr(err) ==
    /\ call.pc = "call"
    /\ call' = InvCallErr(call, err)
    /\ UNCHANGED <<ids, jobs, task, wk, fs, storeFaults, pure, http, pay>>

R_OkMsg ==
    /\ call.pc = "okmsg"
    /\ \E stored \in WriteOutcomes :
        /\ jobs' = InvOkMsgJobs(jobs, call, stored)
        /\ storeFaults' = Lost(stored)
    /\ call' = InvOkMsg(call)
    /\ UNCHANGED <<ids, task, wk, fs, pure, http, pay>>

R_Sleep ==
    /\ call.pc = "sleep"
    /\ call' = InvSleep(call)
    /\ UNCHANGED <<ids, jobs, task, wk, fs, storeFaults, pure, http, pay>>

NextRetry ==
    \/ R_Top
    \/ \E response \in Responses : R_CallOk(response)
    \/ \E err \in ErrorTexts : R_CallErr(err)
    \/ R_OkMsg
    \/ R_Sleep

SpecRetry == InitRetry /\ [][NextRetry]_vars

\* every AI call returns or raises and every sleep ends: the invocation is
\* never suspended for ever
FairSpecRetry == SpecRetry /\ WF_vars(NextRetry)

(***************************************************************************)
(* Stand-alone applications of the pure functions, for every input within  *)
(* the bounds                                                              *)
(***************************************************************************)
SeqsUpTo(S, n) == UNION { [1..k -> S] : k \in 0..n }

\* the result of a function that has not been applied yet
NoOutput == [raised |-> FALSE]

Application(op, in) == [op |-> op, in |-> in, out |-> NoOutput, done |-> FALSE]

Applied(op) == pure.op = op /\ pure.done

\* responses given to parse_model_response: every text over the tokens "{",
\* "}", "m" (the members of an object) and "x" (prose), a response whose .text
\* is None, and a response without text and without candidates
TextTokens == {"{", "}", "m", "x"}
ParserInputs ==
    { [kind |-> "str", text |-> t, plan |-> PlanReorderCut] :
            t \in SeqsUpTo(TextTokens, MaxTextLen) }
        \cup { [kind |-> k, text |-> <<>>, plan |-> EmptyPlan] : k \in {"None", "notext"} }

\* numbers of clips of an edit-multi job
ClipCounts == 1..Len(ClipNames)

\* values of the `order` key of a plan
OrderItems ==
    { JInt(-1), JInt(0), JInt(1), JInt(2), JInt(5), JStr("1"), JStr("x"),
      JFloat(15), JBool(TRUE), Null }
RawOrders ==
    { JList(xs) : xs \in SeqsUpTo(OrderItems, MaxOrderLen) }
        \cup { Absent, Null, JInt(1), JStr("10") }

\* entries of the `cuts` key of a plan
CutItems ==
    { JCut(JInt(0), JStr("00:02"), JStr("00:08")),
      JCut(JInt(0), JStr("00:01"), Absent),
      JCut(JInt(1), JStr("00:03"), JStr("00:05")),
      JCut(JInt(7), JStr("00:02"), JStr("00:08")),
      JCut(JStr("1"), JStr("00:04"), JStr("00:06")),
      JCut(JFloat(15), Absent, JStr("00:09")),
      JCut(JStr("x"), JStr("00:02"), JStr("00:08")),
      JCut(Absent, JStr("00:02"), JStr("00:08")),
      JInt(3), JStr("cut"), Null }

\* values of the `audio_cues` key of a plan
CueItems ==
    { JCue(JStr("00:03")), JCue(JStr("00:07")), JCue(JStr("")), JCue(Absent),
      JInt(1), JStr("t") }
RawCues ==
    { JList(xs) : xs \in SeqsUpTo(CueItems, MaxCuesLen) }
        \cup { Absent, Null, JInt(0), JInt(3), JStr("cue") }

\* entries of the edit plan a caller sends to /api/edit-video
EditItems == { EditCut("00:02", "00:08"), EditCue("00:03"), EditCue("00:07"), EditCue("") }

\* clean orders of n clips: not empty, without duplicates, within 0..n-1
CleanOrders(n) ==
    { o \in SeqsUpTo(0..(n - 1), n) :
        o # <<>> /\ \A a, b \in 1..Len(o) : a # b => o[a] # o[b] }

\* cut maps of n clips: any clips of 0..n-1 as keys
CutStarts == { Absent, JStr("00:02") }
CutEnds == { Absent, JStr("00:08"), JStr("x:08") }
CutMaps(n) ==
    UNION { [K -> { [set |-> TRUE, start |-> st, end |-> en] :
                        st \in CutStarts, en \in CutEnds }] : K \in SUBSET (0..(n - 1)) }

\* what ffprobe reports for the clips of a job: a size, or nothing
ProbeResults == { NoSize, Size(1920, 1080), Size(640, 360) }
ClipPathsOf(j, n) == { ClipPath(j, i) : i \in 0..(n - 1) }
AllProbesFail(j, n) == [p \in ClipPathsOf(j, n) |-> NoSize]
NoCuts == [k \in {} |-> NoCut]

\* inputs of build_concat_command: every cut map with clips that cannot be
\* probed, and every probe answer with clips that are not cut
ConcatInputs ==
    UNION { { [n |-> n, order |-> order, cuts_map |-> cuts_map,
               probed |-> AllProbesFail("j1", n)] :
                    order \in CleanOrders(n), cuts_map \in CutMaps(n) }
            \cup { [n |-> n, order |-> order, cuts_map |-> NoCuts, probed |-> probed] :
                    order \in CleanOrders(n),
                    probed \in [ClipPathsOf("j1", n) -> ProbeResults] } :
            n \in ClipCounts }

\* inputs of build_ffmpeg_with_audio: the video it reads, the start of the
\* effect and the duck level
MixStarts == AudioStarts \cup { JStr("01:30"), JStr("x:08"), JStr("") }
MixInputs ==
    { [input_video |-> Join(JobDir("j1"), name), audio_start |-> st, audio_duck_db |-> db] :
            name \in {"input.mp4", "cut_video.mp4", "concat_video.mp4"},
            st \in MixStarts, db \in DuckDbs }

\* inputs of the command building of edit_video_task
EditCommandItems ==
    { EditCut("00:02", "00:08"), EditCut("01:00", "01:30"), EditCut("", "00:05"),
      EditCue("00:03") }
EditCommandInputs ==
    { [edit_plan |-> plan, has_audio |-> a, audio_start |-> st, audio_duck_db |-> db] :
            plan \in SeqsUpTo(EditCommandItems, MaxCutsLen), a \in BOOLEAN,
            st \in AudioStarts, db \in {-8, 0} }

\* values given to time_to_seconds: texts with one to four segments, with
\* empty, blank, negative and non-numeric segments, and values that are not
\* texts
TimeTexts == DOMAIN TimeParts \cup {"", " ", "7", "-5", "x", "30"}
TimeInputs ==
    { JStr(t) : t \in TimeTexts }
        \cup { Null, Absent, JInt(0), JInt(1), JBool(TRUE), JBool(FALSE),
               JList(<<>>), JList(<<JInt(1)>>) }

InitPure ==
    /\ ids = {}
    /\ jobs = [j \in JobIds |-> AbsentJob]
    /\ task = [j \in JobIds |-> NoTask]
    /\ wk = [j \in JobIds |-> IdleWorker]
    /\ fs = [p \in Paths |-> "none"]
    /\ storeFaults = 0
    /\ call = IdleCall
    /\ http = NoReply
    /\ pay = NoPayment
    /\ \/ \E r \in ParserInputs : pure = Application("parse", r)
       \/ \E raw \in RawOrders, n \in ClipCounts :
                pure = Application("order", [raw_order |-> raw, n |-> n])
       \/ \E cuts \in SeqsUpTo(CutItems, MaxCutsLen), n \in ClipCounts :
                pure = Application("cuts", [cuts |-> JList(cuts), n |-> n])
       \/ \E cues \in RawCues, st \in AudioStarts, a \in BOOLEAN :
                pure = Application("audio_multi",
                            [cues |-> cues, audio_start |-> st, has_audio |-> a])
       \/ \E plan \in SeqsUpTo(EditItems, MaxCuesLen), st \in AudioStarts :
                pure = Application("audio_edit", [plan |-> plan, audio_start |-> st])
       \/ \E in \in ConcatInputs : pure = Application("concat", in)
       \/ \E in \in MixInputs : pure = Application("mix", in)
       \/ \E in \in TimeInputs : pure = Application("time", in)
       \/ \E j \in JobIds :
            \/ \E plan \in SeqsUpTo(EditCommandItems, MaxCutsLen) :
                    pure = Application("build", [fn |-> "cut", job |-> j,
                                                 args |-> [edit_plan |-> plan]])
            \/ \E in \in { c \in ConcatInputs : c.n < Len(ClipNames) } :
                    pure = Application("build", [fn |-> "concat", job |-> j, args |-> in])
            \/ \E in \in MixInputs :
                    pure = Application("build", [fn |-> "mix", job |-> j, args |-> in])
       \/ \E in \in EditCommandInputs : pure = Application("edit_commands", in)

ApplyPure(op, out) ==
    /\ pure.op = op /\ ~pure.done
    /\ pure' = [pure EXCEPT !.out = out, !.done = TRUE]
    /\ UNCHANGED <<ids, jobs, task, wk, fs, storeFaults, call, http, pay>>

P_Parse == ApplyPure("parse", parse_model_response(pure.in))

\* lines 541-552 of edit_multi_task
P_Order ==
    ApplyPure("order", [raised |-> FALSE,
                        order |-> CleanOrder(pure.in.raw_order, pure.in.n)])

\* lines 557-566 of edit_multi_task
P_Cuts ==
    ApplyPure("cuts", [raised |-> FALSE,
                       cuts_map |-> CutsMap(pure.in.cuts, pure.in.n)])

\* lines 589-592 of edit_multi_task
P_AudioMulti ==
    ApplyPure("audio_multi",
        IF pure.in.has_audio /\ Truthy(pure.in.cues) /\ CuesRaise(pure.in.cues)
        THEN [raised |-> TRUE, audio_start |-> pure.in.audio_start]
        ELSE [raised |-> FALSE,
              audio_start |-> AdjustedAudioStart(pure.in.has_audio, pure.in.cues,
                                                 pure.in.audio_start)])

\* the cue_times adjustment of edit_video (app.py)
P_AudioEdit ==
    ApplyPure("audio_edit",
        [raised |-> FALSE, audio_start |-> EditAudioStart(pure.in.plan, pure.in.audio_start)])

\* lines 554-580 of edit_multi_task: ordered_paths, build_concat_command
P_Concat ==
    ApplyPure("concat",
        [raised |-> FALSE,
         cmd |-> build_concat_command(OrderedPaths("j1", pure.in.order), pure.in.order,
                                      pure.in.cuts_map,
                                      Join(JobDir("j1"), "concat_video.mp4"),
                                      pure.in.probed)])

P_Mix ==
    ApplyPure("mix",
        [raised |-> FALSE,
         cmd |-> build_ffmpeg_with_audio(pure.in.input_video,
                                         Join(JobDir("j1"), "output_video.mp4"),
                                         Join(JobDir("j1"), "effect.mp3"),
                                         pure.in.audio_start, pure.in.audio_duck_db)])

\* lines 280-321 of edit_video_task
P_EditCommands ==
    ApplyPure("edit_commands",
        [raised |-> FALSE,
         cmds |-> EditCommands(Join(JobDir("j1"), "input.mp4"), pure.in.edit_plan,
                               IF pure.in.has_audio THEN Join(JobDir("j1"), "effect.mp3")
                               ELSE NoPath,
                               pure.in.audio_start, pure.in.audio_duck_db)])

\* `filter_parts = []` (edit_video_task) and `filter_parts: List[str] = []`
\* (build_concat_command): the list a build starts from, given the list the
\* build before it ended with
StartingPartsKept(earlier) == earlier
StartingParts(earlier) == <<>>

\* one build of a command for job j after a build that left `earlier`
BuildCut(j, edit_plan, earlier) ==
    LET filter_parts == StartingParts(earlier) \o EditFilterParts(edit_plan)
    IN  IF filter_parts = <<>> THEN NoCommand
        ELSE CutCommand(Join(JobDir(j), "input.mp4"), filter_parts,
                        Join(JobDir(j), "cut_video.mp4"))
BuildConcat(j, in, earlier) ==
    LET cmd == build_concat_command(OrderedPaths(j, in.order), in.order, in.cuts_map,
                                    Join(JobDir(j), "concat_video.mp4"),
                                    [q \in ClipPathsOf(j, in.n) |->
                                        in.probed[Join(JobDir("j1"), q[2])]])
    IN  [cmd EXCEPT !.chains = StartingParts(earlier) \o @]
BuildMix(j, in) ==
    build_ffmpeg_with_audio(Join(JobDir(j), in.input_video[2]),
                            Join(JobDir(j), "output_video.mp4"),
                            Join(JobDir(j), "effect.mp3"),
                            in.audio_start, in.audio_duck_db)

\* the lists of filters a build ended with
PartsBuilt(fn, cmd) ==
    CASE fn = "cut" -> IF cmd.set THEN cmd.vf.excluded ELSE <<>>
      [] fn = "concat" -> cmd.chains
      [] OTHER -> <<>>

Build(j, in, earlier) ==
    CASE in.fn = "cut" -> BuildCut(j, in.args.edit_plan, earlier)
      [] in.fn = "concat" -> BuildConcat(j, in.args, earlier)
      [] in.fn = "mix" -> BuildMix(j, in.args)

\* a first build of a command for job j1
P_Build ==
    /\ pure.op = "build" /\ ~pure.done /\ pure.out = NoOutput
    /\ pure' = [pure EXCEPT !.out = [raised |-> FALSE,
                                     builds |-> <<Build("j1", pure.in, <<>>)>>]]
    /\ UNCHANGED <<ids, jobs, task, wk, fs, storeFaults, call, http, pay>>

\* a second build from the same arguments, for the job pure.in.job
P_BuildAgain ==
    /\ pure.op = "build" /\ ~pure.done /\ pure.out # NoOutput
    /\ pure' = [pure EXCEPT
                    !.out.builds = Append(@, Build(pure.in.job, pure.in,
                                                   PartsBuilt(pure.in.fn, @[1]))),
                    !.done = TRUE]
    /\ UNCHANGED <<ids, jobs, task, wk, fs, storeFaults, call, http, pay>>

\* the two copies of time_to_seconds applied to one value
P_Time ==
    ApplyPure("time", [raised |-> FALSE, seconds |-> time_to_seconds(pure.in),
                       app_seconds |-> app_time_to_seconds(pure.in)])

NextPure ==
    \/ P_Parse
    \/ P_Order
    \/ P_Cuts
    \/ P_AudioMulti
    \/ P_AudioEdit
    \/ P_Concat
    \/ P_Mix
    \/ P_EditCommands
    \/ P_Time
    \/ P_Build
    \/ P_BuildAgain

SpecPure == InitPure /\ [][NextPure]_vars

(***************************************************************************)
(* Properties of the job record                                            *)
(***************************************************************************)
Terminal == {"succeeded", "failed"}
Finished(j) == wk[j].pc = "done"
MediaJob(j) == task[j].type \in {"edit", "edit-multi"}

\* a subprocess of the job exited non-zero
NonZeroExit(j) ==
    \E i \in 1..Len(wk[j].runs) : wk[j].runs[i].kind = "exit" /\ wk[j].runs[i].rc # 0

\* C1 as stated: the status stored for a job goes from queued to processing and
\* from processing to succeeded or failed, by no other step, and a record that
\* holds succeeded or failed is not changed by any later write.
C1_Original ==
    [][\A j \in JobIds :
          /\ jobs'[j].status # jobs[j].status =>
                <<jobs[j].status, jobs'[j].status>> \in
                    { <<"absent", "queued">>, <<"queued", "processing">>,
                      <<"processing", "succeeded">>, <<"processing", "failed">> }
          /\ jobs[j].status \in Terminal => jobs'[j] = jobs[j]]_vars

\* C1 amended: the stored status only moves forward along queued, processing,
\* succeeded|failed; processing is skipped when the store failed to carry out
\* the processing writes; a record that holds succeeded or failed is not
\* changed by any later write.
C1_StatusForward ==
    [][\A j \in JobIds :
          /\ jobs'[j].status # jobs[j].status =>
                <<jobs[j].status, jobs'[j].status>> \in
                    { <<"absent", "queued">>, <<"queued", "processing">>,
                      <<"processing", "succeeded">>, <<"processing", "failed">>,
                      <<"queued", "succeeded">>, <<"queued", "failed">> }
          /\ jobs[j].status \in Terminal => jobs'[j] = jobs[j]]_vars

\* a job reached a terminal status although its processing write was lost
C1_Witness ==
    \E j \in JobIds :
        jobs[j].status \in Terminal /\ Finished(j) /\ storeFaults < MaxStoreFaults
            /\ jobs[j].updated_at = 1

\* C2 as stated: a task that has ended left its job in status succeeded or
\* failed (every started job ends terminal when its calls return).
C2_Original ==
    \A j \in JobIds : Finished(j) => jobs[j].status \in Terminal

\* C3 as stated: no exception leaves a task; a task that has ended returned
\* its result or an {error: ...} value.
C3_Original ==
    \A j \in JobIds : Finished(j) => wk[j].ret \in {"result", "error"}

\* C4 as stated: after a non-zero exit of a subprocess of an edit or edit-multi
\* job the job is failed with a message containing the captured stderr, is not
\* succeeded and has no result_path.
C4_Original ==
    \A j \in JobIds :
        MediaJob(j) /\ NonZeroExit(j) =>
            /\ jobs[j].status = "failed"
            /\ Contains(jobs[j].message, wk[j].failed_stderr)
            /\ jobs[j].result_path = NoPath

\* C4 amended: after a non-zero exit of a subprocess of an edit or edit-multi
\* job the task has ended with an error value, the job is never succeeded and
\* has no result_path, and the job is failed with a message containing the
\* captured stderr unless the store failed to carry out that last write, in
\* which case the record is not failed.
C4_NonZeroExitFails ==
    \A j \in JobIds :
        MediaJob(j) /\ NonZeroExit(j) =>
            /\ Finished(j) /\ wk[j].ret = "error"
            /\ jobs[j].status # "succeeded"
            /\ jobs[j].result_path = NoPath
            /\ jobs[j].status = "failed" <=> wk[j].stored
            /\ wk[j].stored => Contains(jobs[j].message, wk[j].failed_stderr)

\* the audio mix of an edit-multi job exited non-zero after a good concatenation
C4_Witness ==
    \E j \in JobIds :
        /\ task[j].type = "edit-multi" /\ Len(wk[j].runs) = 2
        /\ wk[j].runs[2].rc # 0 /\ wk[j].runs[2].kind = "exit"
        /\ jobs[j].status = "failed"
        /\ wk[j].failed_stderr # NoError

\* C5: an edit or edit-multi job is succeeded only if every subprocess of the
\* job, the final one included, exited zero, and the file named by result_path
\* exists and was written by the media tool.
C5_SucceededHasArtifact ==
    \A j \in JobIds :
        MediaJob(j) /\ jobs[j].status = "succeeded" =>
            /\ wk[j].runs # <<>>
            /\ \A i \in 1..Len(wk[j].runs) :
                    wk[j].runs[i].kind = "exit" /\ wk[j].runs[i].rc = 0
            /\ wk[j].runs[Len(wk[j].runs)].cmd =
                  (IF task[j].has_audio THEN "audio"
                   ELSE IF task[j].type = "edit" THEN "copy" ELSE "concat")
            /\ jobs[j].result_path \in Paths
            /\ fs[jobs[j].result_path] = "ffmpeg"

\* an edit job with a cut pass and an audio pass is succeeded
C5_Witness ==
    \E j \in JobIds :
        /\ task[j].type = "edit" /\ jobs[j].status = "succeeded"
        /\ Len(wk[j].runs) = 2 /\ task[j].has_audio

\* C6: result_path and result_json are set only in a record whose status is
\* succeeded.
C6_ResultOnlyOnSuccess ==
    \A j \in JobIds :
        /\ jobs[j].result_path # NoPath => jobs[j].status = "succeeded"
        /\ jobs[j].result_json # NoJson => jobs[j].status = "succeeded"

\* a job failed after the media tool had already written an output file
C6_Witness ==
    \E j \in JobIds :
        /\ jobs[j].status = "failed"
        /\ \E p \in Paths : p[1] = j /\ fs[p] = "ffmpeg"

\* C7: no write lowers the progress stored for a job.
C7_ProgressMonotonic ==
    [][\A j \in JobIds : jobs'[j].progress >= jobs[j].progress]_vars

\* an edit-multi job failed at progress 100 after retry updates of the AI call
C7_Witness ==
    \E j \in JobIds :
        /\ task[j].type = "edit-multi" /\ wk[j].inv.updates > 0
        /\ jobs[j].status = "failed" /\ jobs[j].progress = DoneProgress

\* C8: a record with status succeeded or failed has progress 100, and the
\* message of a failed record contains the text of the exception the task caught.
C8_TerminalProgressAndCause ==
    \A j \in JobIds :
        /\ jobs[j].status \in Terminal => jobs[j].progress = 100
        /\ jobs[j].status = "failed" =>
              /\ wk[j].exc # NoError
              /\ Contains(jobs[j].message, wk[j].exc)
              /\ Len(jobs[j].message) = Len(wk[j].exc) + 1

\* a job failed on an AI error that was not retried
C8_Witness ==
    \E j \in JobIds :
        /\ jobs[j].status = "failed"
        /\ wk[j].exc = <<"invalid", "api", "key">>

(***************************************************************************)
(* Properties of call_gemini_with_retry                                    *)
(***************************************************************************)
\* C9: the invocation ends (returns or raises), makes at most max_retries + 1
\* calls, and with max_retries = 0 makes exactly one call and never sleeps.
C9_BoundedCalls ==
    /\ <>InvDone(call)
    /\ [](/\ call.calls <= call.max_retries + 1
          /\ Len(call.sleeps) <= call.max_retries
          /\ call.max_retries = 0 => call.sleeps = <<>> /\ call.pc # "sleep"
          /\ InvDone(call) /\ call.max_retries = 0 => call.calls = 1)

\* every attempt failed with a retryable error: the budget is used up
C9_Witness ==
    /\ call.pc = "raised" /\ call.max_retries > 0
    /\ call.calls = call.max_retries + 1
    /\ IsRetryable(call.last_error)

\* C10: the i-th sleep follows attempt i-1, which failed with a retryable
\* error and was not the last attempt, and lasts initial_wait * 2^(i-1); no
\* sleep follows a success or the last attempt; a call that fails twice with a
\* retryable error and then succeeds returns that response after exactly two
\* sleeps, the second twice as long as the first.
C10_Backoff ==
    /\ \A i \in 1..Len(call.sleeps) :
          /\ i <= Len(call.outcomes)
          /\ call.outcomes[i] # OkOutcome /\ IsRetryable(call.outcomes[i])
          /\ i - 1 < call.max_retries
          /\ call.sleeps[i] = call.initial_wait * Pow2(i - 1)
    /\ Len(call.sleeps) \in {Len(call.outcomes) - 1, Len(call.outcomes)}
    /\ call.pc \in {"top", "call"} => Len(call.sleeps) = Len(call.outcomes)
    /\ InvDone(call) => Len(call.sleeps) = Len(call.outcomes) - 1
    /\ (call.pc = "returned" /\ Len(call.outcomes) = 3) =>
          /\ Len(call.sleeps) = 2
          /\ call.sleeps[2] = 2 * call.sleeps[1]
          /\ call.response \in Responses

\* two retryable failures, then a success
C10_Witness ==
    /\ call.pc = "returned" /\ Len(call.outcomes) = 3
    /\ call.outcomes[3] = OkOutcome
    /\ Len(call.sleeps) = 2

\* the text of an error matches none of the retryable signals, in any case
MatchesNoSignal(err) ==
    \A i \in 1..Len(err) :
        Lower(err[i]) \notin {"503", "429", "unavailable", "overloaded", "timeout", "deadline"}

\* C11: a failed AI call whose error text matches none of the retryable
\* signals is the last call of the invocation: the invocation has raised that
\* error, and no sleep and no call follow it, whatever the attempt number and
\* the remaining budget.
C11_NonRetryableRaisesAtOnce ==
    \A i \in 1..Len(call.outcomes) :
        (call.outcomes[i] # OkOutcome /\ MatchesNoSignal(call.outcomes[i])) =>
            /\ i = Len(call.outcomes) /\ call.calls = i
            /\ call.pc = "raised"
            /\ call.last_error = call.outcomes[i]
            /\ Len(call.sleeps) = i - 1

\* a non-retryable error on a retry attempt that still had budget left
C11_Witness ==
    /\ call.pc = "raised" /\ call.attempt > 0 /\ call.attempt < call.max_retries
    /\ call.last_error = <<"invalid", "api", "key">>

\* every attempt so far failed with an error that matches a retryable signal
AllRetryableFailures ==
    \A i \in 1..Len(call.outcomes) :
        call.outcomes[i] # OkOutcome /\ ~MatchesNoSignal(call.outcomes[i])

\* C12: when all max_retries + 1 attempts failed with retryable errors, the
\* invocation has raised the error of the last attempt and slept max_retries
\* times: no sleep follows the last attempt.
C12_ExhaustedRaisesLast ==
    (Len(call.outcomes) = call.max_retries + 1 /\ AllRetryableFailures) =>
        /\ call.pc = "raised"
        /\ call.last_error = call.outcomes[Len(call.outcomes)]
        /\ Len(call.sleeps) = call.max_retries
        /\ call.calls = call.max_retries + 1

\* the budget is used up by retryable errors, the last differs from the first
C12_Witness ==
    /\ call.pc = "raised" /\ call.max_retries >= 2
    /\ Len(call.outcomes) = call.max_retries + 1 /\ AllRetryableFailures
    /\ call.outcomes[1] # call.outcomes[Len(call.outcomes)]

\* C13 as stated: while a retry attempt (attempt > 0) of the AI call of an
\* analyze or edit-multi job is being made, the job record carries the status
\* update of that attempt, written before the call.
C13_Original ==
    \A j \in JobIds :
        (task[j].type \in {"analyze", "edit-multi"} /\ wk[j].pc = "ai"
            /\ wk[j].inv.pc = "call" /\ wk[j].inv.attempt > 0) =>
                /\ wk[j].inv.updates = wk[j].inv.attempt
                /\ jobs[j].message =
                      <<"API retry", NumTok(wk[j].inv.attempt), "/",
                        NumTok(wk[j].inv.max_retries), "(API temporarily busy)">>

(***************************************************************************)
(* Properties of parse_model_response                                      *)
(***************************************************************************)
\* positions (1-based) of the first "{" and the last "}" of a text, 0 if none
FirstOpen(text) ==
    IF \E i \in 1..Len(text) : text[i] = "{"
    THEN CHOOSE i \in 1..Len(text) : text[i] = "{" /\ \A k \in 1..(i - 1) : text[k] # "{"
    ELSE 0
LastClose(text) ==
    IF \E i \in 1..Len(text) : text[i] = "}"
    THEN CHOOSE i \in 1..Len(text) : text[i] = "}" /\ \A k \in (i + 1)..Len(text) : text[k] # "}"
    ELSE 0

\* the text holds a "{" and a later "}"
HasBraces(text) == FirstOpen(text) > 0 /\ LastClose(text) > FirstOpen(text)
Braced(text) == SubSeq(text, FirstOpen(text), LastClose(text))
IsJsonObject(sub) == sub = <<"{", "}">> \/ sub = <<"{", "m", "}">>

\* C14 as stated: parse_model_response raises for no response; when the text
\* is absent or not a string, has no braces, has "}" before "{" only, or its
\* brace-delimited substring is not valid JSON, the result is the fallback
\* object whose summary is the full response text.
C14_Original ==
    Applied("parse") =>
        /\ ~pure.out.raised
        /\ (pure.in.kind # "str" \/ ~HasBraces(pure.in.text)
                \/ ~IsJsonObject(Braced(pure.in.text))) =>
              /\ pure.out.shape = "fallback"
              /\ pure.out.summary = pure.in.text

\* C15: for a text with a "{" and a later "}", the result is the decoding of
\* exactly the substring from the first "{" to the last "}" inclusive, whatever
\* stands before and after it (and the fallback object when that substring is
\* not valid JSON).
C15_DecodesBracedSubstring ==
    (Applied("parse") /\ pure.in.kind = "str" /\ HasBraces(pure.in.text)) =>
        /\ ~pure.out.raised
        /\ IF IsJsonObject(Braced(pure.in.text))
           THEN /\ pure.out.shape = "decoded"
                /\ pure.out.plan =
                      (IF Braced(pure.in.text) = <<"{", "}">> THEN EmptyPlan
                       ELSE pure.in.plan)
           ELSE /\ pure.out.shape = "fallback"
                /\ pure.out.summary = pure.in.text

\* an object with prose before and after it was decoded
C15_Witness ==
    /\ Applied("parse") /\ pure.in.text = <<"x", "{", "m", "}", "x">>
    /\ pure.out.shape = "decoded" /\ pure.out.plan = PlanReorderCut

(***************************************************************************)
(* Properties of the plan compilation of edit_multi_task                   *)
(***************************************************************************)
\* the entries of a JSON value when it is a list
Items(x) == IF x.t = "list" THEN x.v ELSE <<>>

\* an entry counts as a clip index only when it is a JSON integer
StrictInt(item) == [ok |-> item.t = "int", v |-> IF item.t = "int" THEN item.v ELSE 0]

\* an entry counts as a clip index when int() converts it
PythonInt(item) == ToInt(item)

\* r is the list `raw` with the entries that are no clip index of 0..n-1
\* dropped and duplicates collapsed onto their first occurrence, or 0..n-1
\* when nothing is left
IsCleanOrder(r, raw, n, Index(_)) ==
    LET kept == { i \in 1..Len(raw) : Index(raw[i]).ok /\ Index(raw[i]).v \in 0..(n - 1) }
        first(v) == CHOOSE i \in kept :
                        Index(raw[i]).v = v /\ \A k \in kept : Index(raw[k]).v = v => i <= k
    IN  IF kept = {}
        THEN r = [i \in 1..n |-> i - 1]
        ELSE /\ { r[a] : a \in 1..Len(r) } = { Index(raw[i]).v : i \in kept }
             /\ \A a, b \in 1..Len(r) : a < b => first(r[a]) < first(r[b])

\* C16 as stated: the order is the raw list with out-of-range and non-integer
\* entries dropped and duplicates collapsed, or 0..N-1 when nothing is left.
C16_Original ==
    Applied("order") =>
        IsCleanOrder(pure.out.order, Items(pure.in.raw_order), pure.in.n, StrictInt)

\* C16 amended: the order is the raw list with every entry converted by int()
\* (numeric strings parsed, floats cut towards zero, booleans taken as 0 or 1),
\* the entries int() rejects or that fall outside [0, N) dropped and duplicates
\* collapsed onto their first occurrence, or 0..N-1 when nothing is left; its
\* indices are unique and within [0, N), it is not empty, and indices the plan
\* left out are not appended.
C16_CleanOrder ==
    Applied("order") =>
        LET r == pure.out.order
        IN  /\ ~pure.out.raised
            /\ IsCleanOrder(r, Items(pure.in.raw_order), pure.in.n, PythonInt)
            /\ r # <<>>
            /\ \A a \in 1..Len(r) : r[a] \in 0..(pure.in.n - 1)
            /\ \A a, b \in 1..Len(r) : a # b => r[a] # r[b]
            /\ (pure.in.raw_order = JList(<<JInt(5), JInt(1), JInt(1)>>) /\ pure.in.n = 3)
                    => r = <<1>>

\* order [5, 1, 1] of three clips was cleaned
C16_Witness ==
    /\ Applied("order") /\ pure.in.n = 3
    /\ pure.in.raw_order = JList(<<JInt(5), JInt(1), JInt(1)>>)
    /\ pure.out.order = <<1>>

\* the last subprocess the task ran failed
LastRunFailed(j) ==
    /\ wk[j].runs # <<>>
    /\ LET o == wk[j].runs[Len(wk[j].runs)] IN o.kind = "oserror" \/ o.rc # 0

\* C17 as stated: once the AI response of an edit-multi job has been parsed,
\* compilation of the plan completes whatever the shape of `order`, `cuts`
\* and `audio_cues`: the task goes on to the concatenation and ends with an
\* error only when a subprocess failed.
C17_Original ==
    \A j \in JobIds :
        (task[j].type = "edit-multi" /\ wk[j].inv.pc = "returned"
            /\ ~wk[j].parsed.raised /\ wk[j].pc = "done" /\ wk[j].ret = "error") =>
                LastRunFailed(j)

\* m is the cut map of the list `cuts`: its keys are the clip indices of
\* 0..n-1 named by an entry that is an object, each with the start and end of
\* the last such entry; every other entry is left out
IsCutsMap(m, cuts, n, Index(_)) ==
    LET hits(k) == { i \in 1..Len(cuts) :
                        /\ cuts[i].t = "dict"
                        /\ Index(cuts[i].v.clip).ok /\ Index(cuts[i].v.clip).v = k }
        last(k) == CHOOSE i \in hits(k) : \A h \in hits(k) : h <= i
    IN  /\ DOMAIN m = { k \in 0..(n - 1) : hits(k) # {} }
        /\ \A k \in DOMAIN m :
                /\ m[k].start = cuts[last(k)].v.start
                /\ m[k].end = cuts[last(k)].v.end

\* C18 as stated: the keys of the cut map are integer clip indices within
\* [0, clip_count); entries that are no objects, or whose clip is missing,
\* not an integer or out of range, are dropped and the other entries stay.
C18_Original ==
    Applied("cuts") =>
        /\ ~pure.out.raised
        /\ IsCutsMap(pure.out.cuts_map, pure.in.cuts.v, pure.in.n, StrictInt)

\* C18 amended: the keys of the cut map are integer clip indices within
\* [0, clip_count); entries that are no objects, or whose clip is missing,
\* rejected by int() or out of range after conversion by int() (a numeric
\* string is parsed, a float cut towards zero), are dropped without failing;
\* every other entry is kept under its clip index, a later entry for the same
\* clip replacing an earlier one.
C18_CutsMap ==
    Applied("cuts") =>
        /\ ~pure.out.raised
        /\ DOMAIN pure.out.cuts_map \subseteq 0..(pure.in.n - 1)
        /\ IsCutsMap(pure.out.cuts_map, pure.in.cuts.v, pure.in.n, PythonInt)

\* a cut of clip 7 and a non-object entry were dropped, the cut of clip 1 kept
C18_Witness ==
    /\ Applied("cuts") /\ pure.in.n = 2
    /\ pure.in.cuts = JList(<<JCut(JInt(7), JStr("00:02"), JStr("00:08")),
                              JCut(JInt(1), JStr("00:03"), JStr("00:05"))>>)
    /\ DOMAIN pure.out.cuts_map = {1}

(***************************************************************************)
(* Properties of the audio start                                           *)
(***************************************************************************)
\* a text that is a time: a string that is not empty
IsTime(x) == x.t = "str" /\ x.v # ""

\* the first entry of the sequence that satisfies Cue
FirstOf(xs, Cue(_)) ==
    xs[CHOOSE i \in 1..Len(xs) : Cue(xs[i]) /\ \A k \in 1..(i - 1) : ~Cue(xs[k])]

AiCue(c) == c.t = "dict" /\ IsTime(c.v.time)
CallerCue(e) == e.type = "audio_cue" /\ e.time # ""

\* C19: the audio start is the start the caller supplied when that differs
\* from "00:00"; when it is "00:00" and the plan has an audio cue with a time,
\* it is the time of the first such cue; otherwise it stays "00:00". For the
\* edit-multi task (audio present, plan from the AI) and for the single-edit
\* submission (plan from the caller).
C19_AudioStart ==
    /\ (Applied("audio_multi") /\ pure.in.has_audio /\ ~pure.out.raised) =>
          LET cues == Items(pure.in.cues)
          IN  pure.out.audio_start =
                IF pure.in.audio_start # JStr("00:00") THEN pure.in.audio_start
                ELSE IF \E i \in 1..Len(cues) : AiCue(cues[i])
                     THEN FirstOf(cues, AiCue).v.time
                     ELSE JStr("00:00")
    /\ Applied("audio_edit") =>
          pure.out.audio_start =
                IF pure.in.audio_start # JStr("00:00") THEN pure.in.audio_start
                ELSE IF \E i \in 1..Len(pure.in.plan) : CallerCue(pure.in.plan[i])
                     THEN JStr(FirstOf(pure.in.plan, CallerCue).time)
                     ELSE JStr("00:00")

\* the default start was replaced by the time of the second cue, the first
\* cue having no time
C19_Witness ==
    /\ Applied("audio_multi") /\ pure.in.has_audio
    /\ pure.in.audio_start = JStr("00:00")
    /\ pure.in.cues = JList(<<JCue(JStr("")), JCue(JStr("00:07"))>>)
    /\ pure.out.audio_start = JStr("00:07")

(***************************************************************************)
(* Properties of the concatenation command                                 *)
(***************************************************************************)
\* The media tool reads a filter chain as filter descriptions separated by
\* ",", each a filter name followed by its options (which ":" separates).
RECURSIVE FiltersOf(_)
FiltersOf(chain) ==
    IF chain = <<>> THEN <<>>
    ELSE IF \E i \in 1..Len(chain) : chain[i] = Comma
    THEN LET c == CHOOSE i \in 1..Len(chain) :
                    chain[i] = Comma /\ \A k \in 1..(i - 1) : chain[k] # Comma
         IN  <<SubSeq(chain, 1, c - 1)>> \o FiltersOf(SubSeq(chain, c + 1, Len(chain)))
    ELSE <<chain>>

\* the value of an option of a filter, none when the filter has no such option
OptionOf(filter, name) ==
    IF \E i \in 2..Len(filter) : filter[i].k = name
    THEN [set |-> TRUE, v |-> filter[CHOOSE i \in 2..Len(filter) : filter[i].k = name].v]
    ELSE [set |-> FALSE, v |-> 0]

\* the trim the tool applies for a chain: the start and end options of its
\* trim filter, none when the chain has no trim filter
NoTrim == [start |-> [set |-> FALSE, v |-> 0], end |-> [set |-> FALSE, v |-> 0]]
TrimApplied(chain, trim_name) ==
    LET fl == FiltersOf(chain)
    IN  IF \E i \in 1..Len(fl) : fl[i] # <<>> /\ fl[i][1].k = trim_name
        THEN LET t == fl[CHOOSE i \in 1..Len(fl) : fl[i] # <<>> /\ fl[i][1].k = trim_name]
             IN  [start |-> OptionOf(t, "start="), end |-> OptionOf(t, "end=")]
        ELSE NoTrim

\* the trim a cut asks for: from its start to its end, each when given
TrimAsked(cut) ==
    [start |-> [set |-> cut.start.t = "str", v |-> time_to_seconds(cut.start)],
     end |-> [set |-> cut.end.t = "str", v |-> time_to_seconds(cut.end)]]

\* C20 as stated: in the concatenation command the clip at output position i
\* is the uploaded clip order[i], and the trim applied at position i, to the
\* video and to the audio stream, is the cut registered for clip order[i]; a
\* clip without a cut entry is included whole. With order [1, 0] and a cut of
\* clip 0 from 2s to 8s, position 0 is clip 1 untrimmed and position 1 is clip
\* 0 trimmed to 2s..8s.
C20_Original ==
    Applied("concat") =>
        LET cmd == pure.out.cmd
            order == pure.in.order
        IN  /\ Len(cmd.inputs) = Len(order) /\ cmd.n = Len(order)
            /\ \A i \in 1..Len(order) :
                  /\ cmd.inputs[i] = <<"j1", ClipNames[order[i] + 1]>>
                  /\ LET asked == IF order[i] \in DOMAIN pure.in.cuts_map
                                  THEN TrimAsked(pure.in.cuts_map[order[i]])
                                  ELSE NoTrim
                     IN  /\ TrimApplied(cmd.chains[i].v, "trim=") = asked
                         /\ TrimApplied(cmd.chains[i].a, "atrim=") = asked
            /\ (order = <<1, 0>> /\ DOMAIN pure.in.cuts_map = {0}
                    /\ pure.in.cuts_map[0].start = JStr("00:02")
                    /\ pure.in.cuts_map[0].end = JStr("00:08")) =>
                  /\ TrimApplied(cmd.chains[1].v, "trim=") = NoTrim
                  /\ TrimApplied(cmd.chains[2].v, "trim=") =
                        [start |-> [set |-> TRUE, v |-> 2], end |-> [set |-> TRUE, v |-> 8]]

(***************************************************************************)
(* Properties of the stages of a job                                       *)
(***************************************************************************)
RanZero(o) == o.kind = "exit" /\ o.rc = 0

\* C21: an edit-multi job without overlay audio never runs the audio mix and
\* a succeeded one has the concatenation output as result_path; with overlay
\* audio the audio mix runs only after the concatenation exited zero and a
\* succeeded job has the audio-mix output as result_path.
C21_MixOnlyWithAudio ==
    \A j \in JobIds :
        task[j].type = "edit-multi" =>
            /\ \A i \in 1..Len(wk[j].runs) :
                    wk[j].runs[i].cmd = "audio" =>
                        /\ task[j].has_audio
                        /\ i = 2 /\ wk[j].runs[1].cmd = "concat" /\ RanZero(wk[j].runs[1])
            /\ jobs[j].status = "succeeded" =>
                    jobs[j].result_path =
                        <<j, IF task[j].has_audio THEN "output_video.mp4"
                             ELSE "concat_video.mp4">>

\* an edit-multi job with overlay audio succeeded after both subprocesses
C21_Witness ==
    \E j \in JobIds :
        /\ task[j].type = "edit-multi" /\ task[j].has_audio
        /\ jobs[j].status = "succeeded" /\ Len(wk[j].runs) = 2
        /\ jobs[j].result_path = <<j, "output_video.mp4">>

\* the error text of the 400 response of edit_video
AudioRequired == <<"Audio cue requested but no audio file provided">>

\* C22 as stated: an edit job whose plan has an audio_cue entry and that has
\* no overlay audio file runs no subprocess and ends failed with a message
\* saying that audio is required.
C22_Original ==
    \A j \in JobIds :
        (task[j].type = "edit" /\ HasAudioCue(task[j].edit_plan) /\ ~task[j].has_audio) =>
            /\ wk[j].runs = <<>>
            /\ Finished(j) =>
                    /\ jobs[j].status = "failed"
                    /\ Contains(jobs[j].message, AudioRequired)

\* C23 as stated: the overlay audio of an edit-multi job is a file of the
\* job's workspace before any subprocess runs, the audio mix is given the
\* path of that file, and the job does not fail for having overlay audio.
C23_Original ==
    \A j \in JobIds :
        (task[j].type = "edit-multi" /\ task[j].has_audio) =>
            /\ wk[j].runs # <<>> => Exists(fs, Join(JobDir(j), "effect.mp3"))
            /\ (\E i \in 1..Len(wk[j].runs) : wk[j].runs[i].cmd = "audio") =>
                    AudioPath(j) = Join(JobDir(j), "effect.mp3")
            /\ wk[j].exc # <<"Audio file not found:", "effect.mp3">>

\* the errors edit_multi_task raises for a missing input
MissingInputs(j) ==
    { <<"No videos found in database for job", j>>,
      <<"Video file not found:", "video.mp4">>,
      <<"Audio file not found:", "effect.mp3">> }

\* C24 as stated: an edit-multi job that found no stored clip, a clip file
\* missing from the workspace or the overlay audio file missing ends failed
\* with a message naming the missing input, without an AI call and without a
\* subprocess.
C24_Original ==
    \A j \in JobIds :
        (task[j].type = "edit-multi" /\ Finished(j) /\ wk[j].exc \in MissingInputs(j)) =>
            /\ jobs[j].status = "failed"
            /\ Contains(jobs[j].message, wk[j].exc)
            /\ wk[j].inv.calls = 0
            /\ wk[j].runs = <<>>

\* every clip of an edit-multi job is a file of its workspace
Extracted(j) == \A i \in 0..(task[j].nclips - 1) : Exists(fs, ClipPath(j, i))

ScaleOf(chain) ==
    LET fl == FiltersOf(chain)
    IN  IF \E i \in 1..Len(fl) : fl[i] # <<>> /\ fl[i][1].k = "scale="
        THEN LET f == fl[CHOOSE i \in 1..Len(fl) : fl[i] # <<>> /\ fl[i][1].k = "scale="]
             IN  [ok |-> OptionOf(f, ":").set, w |-> f[1].v, h |-> OptionOf(f, ":").v]
        ELSE NoSize

\* C27: build_concat_command scales the video of every clip to one size, the
\* probed size of the first clip in playback order, or 854x480 when that
\* probe fails; the concat filter has as many segments as there are ordered
\* clips and reads them in playback order.
C27_CommonSize ==
    Applied("concat") =>
        LET cmd == pure.out.cmd
            order == pure.in.order
            first == pure.in.probed[ClipPath("j1", order[1])]
            target == IF first.ok THEN first ELSE Size(FallbackWidth, FallbackHeight)
        IN  /\ cmd.n = Len(order) /\ Len(cmd.chains) = Len(order)
            /\ Len(cmd.inputs) = Len(order) /\ Len(cmd.concat_inputs) = Len(order)
            /\ \A i \in 1..Len(order) :
                  /\ ScaleOf(cmd.chains[i].v) = target
                  /\ cmd.inputs[i] = ClipPath("j1", order[i])
                  /\ cmd.chains[i].stream = i - 1
                  /\ cmd.concat_inputs[i] = cmd.chains[i].label

\* a command for two clips or more whose first clip is the smaller one
C27_Witness ==
    /\ Applied("concat") /\ Len(pure.in.order) >= 2
    /\ pure.in.probed[ClipPath("j1", pure.in.order[1])] = Size(640, 360)
    /\ pure.in.probed[ClipPath("j1", pure.in.order[2])] = Size(1920, 1080)
    /\ ScaleOf(pure.out.cmd.chains[2].v) = Size(640, 360)

\* the cut entries of a plan, in plan order
CutsOfPlan(plan) == SelectSeq(plan, LAMBDA e : e.type = "cut")

\* C26: with one cut entry or more edit_video_task builds a cut pass whose
\* exclusion expression has one term per cut entry, in plan order, and is the
\* same for the video (select) and the audio (aselect), and the final pass
\* reads the output of the cut pass; with an empty plan or no cut entry
\* there is no cut pass and, without overlay audio, the one command is a
\* stream copy of the input.
C26_CutPass ==
    Applied("edit_commands") =>
        LET cmds == pure.out.cmds
            cuts == CutsOfPlan(pure.in.edit_plan)
            video_path == Join(JobDir("j1"), "input.mp4")
            output_path == Join(JobDir("j1"), "output_video.mp4")
        IN  IF cuts # <<>>
            THEN /\ cmds.cut.set /\ cmds.cut.input = video_path
                 /\ cmds.cut.vf.select = "select" /\ cmds.cut.af.select = "aselect"
                 /\ Len(cmds.cut.vf.excluded) = Len(cuts)
                 /\ \A i \in 1..Len(cuts) :
                        cmds.cut.vf.excluded[i] =
                            [start_sec |-> time_to_seconds(JStr(cuts[i].start)),
                             end_sec |-> time_to_seconds(JStr(cuts[i].end))]
                 /\ cmds.cut.af.excluded = cmds.cut.vf.excluded
                 /\ (IF pure.in.has_audio THEN cmds.final.mix.inputs[1]
                      ELSE cmds.final.input) = cmds.cut.out
            ELSE /\ ~cmds.cut.set
                 /\ ~pure.in.has_audio =>
                        cmds.final = [kind |-> "copy", input |-> video_path,
                                      codec |-> "copy", out |-> output_path]

\* a plan of two different cut entries
C26_Witness ==
    /\ Applied("edit_commands")
    /\ Len(CutsOfPlan(pure.in.edit_plan)) = 2
    /\ pure.in.edit_plan[1] # pure.in.edit_plan[2]
    /\ Len(pure.out.cmds.cut.af.excluded) = 2

\* C28: build_ffmpeg_with_audio puts a gain filter on the original audio
\* exactly when audio_duck_db is negative; in both cases the overlay is
\* delayed by the start offset in milliseconds on both channels, the mix
\* keeps the duration of its first input, the original audio, and the video
\* stream is copied.
C28_AudioMix ==
    Applied("mix") =>
        LET cmd == pure.out.cmd
            ms == time_to_seconds(pure.in.audio_start) * MillisPerSecond
        IN  /\ cmd.volume.set <=> pure.in.audio_duck_db < 0
            /\ cmd.volume.set => cmd.volume.src = "0:a"
            /\ cmd.amix.srcs[1] = IF cmd.volume.set THEN cmd.volume.dst ELSE "0:a"
            /\ cmd.adelay.src = "1:a" /\ cmd.adelay.delays = <<ms, ms>>
            /\ cmd.amix.srcs[2] = cmd.adelay.dst
            /\ cmd.amix.duration = "first"
            /\ cmd.maps[1] = "0:v:0" /\ cmd.vcodec = "copy"
            /\ cmd.inputs[1] = pure.in.input_video

\* a mix with a positive level and an effect starting after five seconds
C28_Witness ==
    /\ Applied("mix") /\ pure.in.audio_duck_db > 0
    /\ ~pure.out.cmd.volume.set
    /\ pure.out.cmd.adelay.delays = <<5000, 5000>>

(***************************************************************************)
(* Properties of time_to_seconds                                           *)
(***************************************************************************)
\* float() accepts the part (it ignores blanks around the number)
Numeric(part) == ToFloat(Strip(part)).ok
NumberOf(part) == ToFloat(Strip(part)).v

\* the parts scaled by 1, by 60 and 1, or by 3600, 60 and 1
ScaledSum(parts) ==
    CASE Len(parts) = 1 -> NumberOf(parts[1])
      [] Len(parts) = 2 -> NumberOf(parts[1]) * SecondsPerMinute + NumberOf(parts[2])
      [] Len(parts) = 3 -> NumberOf(parts[1]) * SecondsPerHour
                                + NumberOf(parts[2]) * SecondsPerMinute + NumberOf(parts[3])

\* the value the statement gives for an input whose parts are `parts`: the
\* scaled sum for one to three numeric parts, zero for a part that is not
\* numeric, for no part and for more than three parts
ValueFor(parts) ==
    IF Len(parts) \in 1..3 /\ \A i \in 1..Len(parts) : Numeric(parts[i])
    THEN ScaledSum(parts)
    ELSE 0

\* C30 as stated: time_to_seconds does not raise; for one, two or three
\* colon-separated numeric parts it returns their scaled sum, and for an empty
\* input, None, an input with a part that is not numeric and an input of more
\* than three parts it returns zero.
C30_Original ==
    Applied("time") =>
        /\ ~pure.out.raised
        /\ pure.out.seconds =
                IF ~Truthy(pure.in) THEN 0 ELSE ValueFor(Split(Str(pure.in)))

\* C30: time_to_seconds does not raise; it strips the colon-separated parts
\* and drops the empty ones, returns the scaled sum of the one, two or three
\* parts left when float() accepts each of them, and zero for an empty
\* input, None, no part left, a part float() rejects and more than three
\* parts left.
C30_TimeToSeconds ==
    Applied("time") =>
        /\ ~pure.out.raised
        /\ pure.out.seconds =
                IF ~Truthy(pure.in) THEN 0
                ELSE LET split == Split(Str(pure.in))
                         kept == SelectSeq(split, LAMBDA q : Strip(q) # "")
                     IN  ValueFor(kept)

\* a text of four segments, the last one empty, read as hours, minutes, seconds
C30_Witness ==
    /\ Applied("time") /\ pure.in = JStr("1:2:3:")
    /\ pure.out.seconds = SecondsPerHour + 2 * SecondsPerMinute + 3

(***************************************************************************)
(* Two builds of one command                                               *)
(***************************************************************************)
\* the filter graph of a command: what it gives to -vf / -af or -filter_complex
FilterGraph(fn, cmd) ==
    CASE fn = "cut" -> IF cmd.set THEN [vf |-> cmd.vf, af |-> cmd.af] ELSE NoCommand
      [] fn = "concat" -> [chains |-> cmd.chains, concat_inputs |-> cmd.concat_inputs,
                            n |-> cmd.n]
      [] OTHER -> [volume |-> cmd.volume, adelay |-> cmd.adelay, amix |-> cmd.amix]

C40_SameValue ==
    Applied("time") => pure.out.app_seconds = pure.out.seconds

\* a text with a blank segment, which both copies drop
C40_Witness ==
    /\ Applied("time") /\ pure.in = JStr("07: ")
    /\ pure.out.app_seconds = 7 /\ pure.out.seconds = 7

(***************************************************************************)
(* Several cuts of one clip                                                *)
(***************************************************************************)
\* the places of the list `cuts` whose entry is accepted as a cut of clip k
CutsOfClip(cuts, k) ==
    { i \in 1..Len(cuts) :
        /\ cuts[i].t = "dict"
        /\ PythonInt(cuts[i].v.clip).ok /\ PythonInt(cuts[i].v.clip).v = k }

\* the trim filters of a chain
TrimFilters(chain, trim_name) ==
    { i \in 1..Len(FiltersOf(chain)) :
        FiltersOf(chain)[i] # <<>> /\ FiltersOf(chain)[i][1].k = trim_name }

\* C37: when the list `cuts` has several accepted entries for one clip, the
\* cut map holds for that clip the start and end of the last of them, and
\* the concatenation command has at most one trim filter per stream of a
\* clip, every clip being one position of the command.
C37_LastCutWins ==
    /\ Applied("cuts") =>
            \A k \in 0..(pure.in.n - 1) :
                LET hits == CutsOfClip(pure.in.cuts.v, k)
                IN  Cardinality(hits) >= 2 =>
                        LET last == CHOOSE i \in hits : \A h \in hits : h <= i
                        IN  /\ k \in DOMAIN pure.out.cuts_map
                            /\ pure.out.cuts_map[k] =
                                    [set |-> TRUE, start |-> pure.in.cuts.v[last].v.start,
                                     end |-> pure.in.cuts.v[last].v.end]
    /\ Applied("concat") =>
            LET cmd == pure.out.cmd
            IN  /\ \A i \in 1..Len(cmd.chains) :
                        /\ Cardinality(TrimFilters(cmd.chains[i].v, "trim=")) <= 1
                        /\ Cardinality(TrimFilters(cmd.chains[i].a, "atrim=")) <= 1
                /\ \A a, b \in 1..Len(cmd.inputs) : a # b => cmd.inputs[a] # cmd.inputs[b]

\* two cuts of clip 0: the map holds the second one
C37_Witness ==
    /\ Applied("cuts")
    /\ pure.in.cuts = JList(<<JCut(JInt(0), JStr("00:02"), JStr("00:08")),
                              JCut(JInt(0), JStr("00:01"), Absent)>>)
    /\ pure.out.cuts_map[0] = [set |-> TRUE, start |-> JStr("00:01"), end |-> Absent]

(***************************************************************************)
(* The writes of call_gemini_with_retry                                    *)
(***************************************************************************)
\* C36: a step of call_gemini_with_retry changes of a job record only the
\* message and updated_at, never status, progress, result_path or
\* result_json, and only of the job it was given; without a job id or
\* without an update function it makes no write at all.
C36_InvokerWritesMessageOnly ==
    [][ /\ \A j \in JobIds :
            /\ jobs'[j].status = jobs[j].status
            /\ jobs'[j].progress = jobs[j].progress
            /\ jobs'[j].result_path = jobs[j].result_path
            /\ jobs'[j].result_json = jobs[j].result_json
            /\ j # call.job_id => jobs'[j] = jobs[j]
        /\ (call.job_id = NoJobId \/ ~call.update_fn) =>
                jobs' = jobs /\ call'.updates = call.updates ]_vars

\* an invocation that returned after a retry and wrote both messages
C36_Witness ==
    /\ call.pc = "returned" /\ call.updates >= 2
    /\ jobs["j1"].message = <<"AI analysis in progress">>
    /\ jobs["j1"].updated_at > RowAtAiCall.updated_at
    /\ jobs["j1"].status = "processing" /\ jobs["j1"].progress = MultiPlanProgress

(***************************************************************************)
(* Writes the store does not carry out                                     *)
(***************************************************************************)
\* C35: update_job does not raise. A step whose write the store did not
\* carry out leaves every job record as it was and moves the task on as the
\* write would have (no exception leaves the task for it); the value a task
\* returns follows from its stages, whatever the store did: a result after
\* its subprocesses exited zero, an error value after an exception. A task
\* whose last write failed has returned while the record keeps the status it
\* had.
C35_LostWriteChangesNothing ==
    /\ [][ storeFaults' < storeFaults =>
                /\ jobs' = jobs
                /\ \E j \in JobIds :
                        /\ wk'[j] # wk[j] /\ ~wk'[j].stored
                        /\ wk'[j].ret \in {"none", "result", "error"}
                        /\ wk'[j].ret = "error" => wk'[j].exc # NoError ]_vars
    /\ [](\A j \in JobIds :
            Finished(j) =>
                /\ wk[j].ret = "result" =>
                        /\ wk[j].exc = NoError
                        /\ \A i \in 1..Len(wk[j].runs) : RanZero(wk[j].runs[i])
                        /\ MediaJob(j) => wk[j].runs # <<>>
                        /\ jobs[j].status \in {"queued", "processing", "succeeded"}
                        /\ jobs[j].status = "succeeded" <=> wk[j].stored
                /\ wk[j].ret = "error" => wk[j].exc # NoError)

\* a task returned its result while its last write was lost: the record is
\* still at processing
C35_Witness ==
    \E j \in JobIds :
        /\ Finished(j) /\ wk[j].ret = "result" /\ ~wk[j].stored
        /\ jobs[j].status = "processing" /\ jobs[j].result_path = NoPath

(***************************************************************************)
(* The download endpoint                                                   *)
(***************************************************************************)
\* a request to the download endpoint is answered in this step
Downloads == http'.op = "download" /\ http' # http

\* C31: a download answers with the bytes of the artifact only when the
\* stored status of the job is succeeded and a result_path is stored (and then
\* with the file at that path); for a job that is queued, processing or
\* failed, wherever its task stands, it answers with an error status and no
\* artifact
C31_ArtifactOnlyWhenSucceeded ==
    [][ Downloads =>
            LET j == http'.job IN
            /\ http'.artifact # "none" =>
                    /\ jobs[j].status = "succeeded" /\ jobs[j].result_path # NoPath
                    /\ http'.code = 200 /\ http'.artifact = fs[jobs[j].result_path]
            /\ jobs[j].status \in {"queued", "processing", "failed"} =>
                    /\ http'.code \in {400, 500} /\ http'.artifact = "none"
            /\ http'.code = 200 => http'.artifact # "none" ]_vars

\* the artifact of a succeeded job was served
C31_Witness ==
    /\ http.op = "download" /\ http.code = 200 /\ http.artifact = "ffmpeg"
    /\ jobs[http.job].status = "succeeded"
    /\ wk[http.job].ret = "result"

(***************************************************************************)
(* The submission endpoints                                                *)
(***************************************************************************)
\* a submission is answered in this step without a job id
AnswersWithoutJob == http'.op \in JobTypes /\ http' # http

\* C32: the row of a job is inserted with status queued and progress 0 in the
\* request that dispatches its task, so a dispatched task or a worker that has
\* started always finds the row of its job; a request that validation refuses
\* (or whose INSERT fails) writes no row and dispatches no task
C32_RecordBeforeDispatch ==
    /\ [][ /\ \A j \in JobIds :
                (jobs[j].status = "absent" /\ jobs'[j].status # "absent") =>
                    /\ jobs'[j].status = "queued" /\ jobs'[j].progress = 0
                    /\ wk'[j].pc \in {"idle", "start"}
                    /\ (task'[j].dispatched <=> (wk'[j].pc = "start"))
           /\ (AnswersWithoutJob => jobs' = jobs /\ task' = task /\ wk' = wk) ]_vars
    /\ [](\A j \in JobIds :
            (task[j].dispatched \/ wk[j].pc # "idle") => jobs[j].status # "absent")

\* a request was refused while the task of a job is past its first update
C32_Witness ==
    /\ http.op = "edit" /\ http.code = 400
    /\ task["j1"].dispatched /\ jobs["j1"].status = "processing"
    /\ jobs["j2"].status = "absent" /\ ~task["j2"].dispatched

\* C34: every edit-multi job that has a row was submitted with two or three
\* valid clips
C34_Original ==
    \A j \in JobIds :
        (task[j].type = "edit-multi" /\ jobs[j].status # "absent") =>
            task[j].nclips \in 2..MaxUploads

\* the row of job j exists and its task was never handed to a worker
Undispatched(j) == jobs[j].status # "absent" /\ ~task[j].dispatched

\* C38: when .delay() raises after the INSERT the endpoint answers with an
\* error, and from then on the row stays as it was inserted: queued, progress
\* 0, never updated and never removed, whatever is requested later
C38_UndispatchedStaysQueued ==
    /\ [][ \A j \in JobIds :
            /\ (jobs[j].status = "absent" /\ Undispatched(j)') =>
                    http' = Reply("submit", j, 500)
            /\ Undispatched(j) => (jobs'[j] = jobs[j] /\ Undispatched(j)') ]_vars
    /\ [](\A j \in JobIds :
            Undispatched(j) =>
                /\ jobs[j].status = "queued" /\ jobs[j].progress = 0
                /\ jobs[j].updated_at = 0 /\ wk[j].pc = "idle")

\* a download was refused for a job whose dispatch failed
C38_Witness ==
    /\ Undispatched("j1") /\ jobs["j1"].status = "queued"
    /\ http = Reply("download", "j1", 400)

(***************************************************************************)
(* Payment verification                                                    *)
(***************************************************************************)
\* C39: once the transaction has status success no step changes the
\* transaction row or the subscription of the user, and the user becomes
\* active only in the commit that moves the transaction to success
C39_Original ==
    [][ /\ pay.txn.status = "success" => (pay'.txn = pay.txn /\ pay'.user = pay.user)
        /\ (pay.user.subscription_status # "active"
                /\ pay'.user.subscription_status = "active") =>
                    (pay.txn.status # "success" /\ pay'.txn.status = "success") ]_vars

(***************************************************************************)
(* Two jobs on different workers                                           *)
(***************************************************************************)
\* the step leaves the row, the task, the worker and the files of job k alone
Untouched(k) ==
    /\ jobs'[k] = jobs[k] /\ task'[k] = task[k] /\ wk'[k] = wk[k]
    /\ \A name \in FileNames : fs'[<<k, name>>] = fs[<<k, name>>]

\* status, progress and result_path of a finished job as its own task
\* determines them
OwnOutcome(j) ==
    CASE wk[j].ret = "result" ->
            [status |-> "succeeded", progress |-> DoneProgress,
             result_path |-> IF MediaJob(j) THEN wk[j].output_path ELSE NoPath]
      [] wk[j].ret = "error" ->
            [status |-> "failed", progress |-> DoneProgress, result_path |-> NoPath]
      [] OTHER ->
            [status |-> "processing", progress |-> MultiStartProgress,
             result_path |-> NoPath]

\* C33: every step changes the row, the worker and the files of one job id
\* only; the workspaces and the result paths of two jobs differ; and the final
\* status, progress and result of a job are those its own task determines,
\* whatever the other job did in between
C33_JobsDoNotInterfere ==
    /\ [][ \E j \in JobIds : \A k \in JobIds \ {j} : Untouched(k) ]_vars
    /\ [](\A j \in JobIds :
            Finished(j) =>
                /\ jobs[j].status = OwnOutcome(j).status
                /\ jobs[j].progress = OwnOutcome(j).progress
                /\ jobs[j].result_path = OwnOutcome(j).result_path
                /\ jobs[j].result_path # NoPath =>
                        /\ jobs[j].result_path[1] = JobDir(j)
                        /\ Exists(fs, jobs[j].result_path))
    /\ [](\A j, k \in JobIds :
            j # k =>
                /\ JobDir(j) # JobDir(k)
                /\ jobs[j].result_path # NoPath => jobs[j].result_path # jobs[k].result_path)

\* both jobs have finished, each with its own artifact
C33_Witness ==
    /\ Finished("j1") /\ Finished("j2")
    /\ task["j1"].type = "edit-multi" /\ task["j2"].type = "edit"
    /\ jobs["j1"].status = "succeeded" /\ jobs["j2"].status = "succeeded"
    /\ jobs["j1"].result_path # NoPath /\ jobs["j2"].result_path # NoPath

====
